---- MODULE Spec2Model ----
(***************************************************************************)
(* A verification model of the stock-analysis-agent repository.           *)
(*                                                                         *)
(* The repository is a set of loosely coupled parts; each part is modelled *)
(* as its own state machine over its own variables and gets its own        *)
(* specification (SpecTools, SpecStorage, ...).  In the specification of   *)
(* one part the variables of the other parts keep their idle value.        *)
(*                                                                         *)
(* Strings whose characters matter (identifiers that are sanitised, JSON   *)
(* text that is searched and parsed) are sequences of one-character        *)
(* strings; strings that are only compared are TLA+ strings.               *)
(***************************************************************************)
EXTENDS Integers, Sequences, FiniteSets, TLC

VARIABLES
    \* ---- tool wrappers (sub_agents/*/tools, utils/fmp_api_client.py)
    toolCall       \* the last tool call: the wrapper, its environment, the HTTP outcome, what the caller got

toolVars == <<toolCall>>

VARIABLES
    \* ---- result storage (app/agent_result_storage.py)
    files,         \* the results directory: file path -> what the file holds
    clock,         \* the wall clock read by datetime.now()
    lastSaved,     \* history: key -> content of the last save to that key, when it returned True
    storageOp      \* the last storage call and what it returned

storageVars == <<files, clock, lastSaved, storageOp>>

VARIABLES
    \* ---- project manager callback (app/sub_agents/project_manager/agent.py)
    pmState,       \* callback_context.state["pm_instructions"]
    pmPhase,       \* "start": before the agent answers, "output": answer stored, "parsed": after the callback
    pmSource,      \* history: how the stored answer was made (bare or fenced) and its bare JSON text
    pmBefore       \* history: what the key held when the callback was called

pmVars == <<pmState, pmPhase, pmSource, pmBefore>>

\* ---- model configuration (app/sub_agents/utils/firestore_config.py) ----
VARIABLES
    fsInitialized, \* FirestoreClient._initialized
    fsInstance,    \* FirestoreClient._instance: "None" or "client"
    cfgCache,      \* FirestoreConfig._cache
    cfgLoaded,     \* FirestoreConfig._loaded
    fsEnv,         \* the credentials and the Firebase SDK, as the process finds them
    agentDocs,     \* the stock_agents collection: document id -> document
    companyDoc,    \* stock_agent_company/shared_instruction
    cfgCall,       \* the last call made and what it returned
    cfgHist        \* history: calls made, which of them queried the store, apps initialised,
                   \* reloads, how the last load ended and what it had read

cfgVars == <<fsInitialized, fsInstance, cfgCache, cfgLoaded, fsEnv, agentDocs, companyDoc,
             cfgCall, cfgHist>>

\* ---- instruction builders (app/sub_agents/*/agent.py) ----
VARIABLES
    instrState,    \* context.state: session-state key -> value
    instrCall      \* the last builder called and what it returned

instrVars == <<instrState, instrCall>>

\* ---- the main pipeline (app/agent.py) ----
VARIABLES
    pipeStatus,      \* the root agent and each LLM agent: "idle", "running", "done", "failed"
                     \* (the project manager also "answered": output stored, callback not yet run)
    sessKeys,        \* the keys of the session state that have been written
    pmInstructions   \* what pm_instructions holds: "absent", "raw" (the answer text), "parsed"

pipeVars == <<pipeStatus, sessKeys, pmInstructions>>

\* ---- the tracing-safe generator wrapper (app/engine_utils/tracing_utils.py) ----
VARIABLES
    wrap,          \* a TracingSafeAsyncGenerator and the generator it wraps
    genCall        \* the last call made and how it ended

genVars == <<wrap, genCall>>

\* ---- the REST routes over the result storage (app/agent_results_api.py) ----
VARIABLES
    apiCall        \* the last request: the route, the body, the answer, whether the storage was read

apiVars == <<apiCall>>

\* ---- the earlier pipeline (stock-analysis-agent/agent.py) ----
VARIABLES
    legStatus,     \* the root agent and each LLM agent: "idle", "running", "done", "failed"
    legKeys        \* the keys of the session state that have been written

legVars == <<legStatus, legKeys>>

\* ---- tracing configuration (app/tracing_env.py, app/disable_tracing.py) ----
VARIABLES
    osEnviron,     \* os.environ over the variables followed here: name -> value or Unset
    trMode,        \* tracing_env._mode
    trCall         \* the last call made, os.environ as it found it, what it returned

trVars == <<osEnviron, trMode, trCall>>

\* ---- logging configuration (app/logging_config.py) ----
VARIABLES
    loggerLevel,   \* logging.getLogger(name).level, by logger name ("" is the root logger)
    rootHandlers,  \* logging.getLogger().hasHandlers()
    logEnviron,    \* os.environ over the variables the module reads: name -> value or Unset
    customLevels,  \* logging_config._custom_levels
    logConfigured, \* logging_config._configured
    logCall        \* the last call made and its arguments

logVars == <<loggerLevel, rootHandlers, logEnviron, customLevels, logConfigured, logCall>>

\* ---- the user query (app/agent.py) ----
VARIABLES
    userContent,   \* callback_context.user_content
    qState,        \* callback_context.state: key -> value
    qCall          \* the last call made and what it returned

queryVars == <<userContent, qState, qCall>>

vars == <<toolVars, storageVars, pmVars, cfgVars, instrVars, pipeVars, genVars, apiVars, legVars, trVars, logVars, queryVars>>

(***************************************************************************)
(* PART 1.  Tool wrappers                                                  *)
(***************************************************************************)

\* Wrappers that delegate to make_fmp_api_request.
SharedClientTools ==
    { "fmp_price_target_news", "fmp_price_target_summary", "fmp_economic_indicators",
      "fmp_income_statement_growth", "fmp_balance_sheet_statement_growth",
      "fmp_cash_flow_statement_growth", "fmp_dcf_valuation", "fmp_owner_earnings",
      "fmp_enterprise_value" }

\* Wrappers that read os.environ["FMP_API_KEY"] and call requests.get themselves.
DirectTools ==
    { "fmp_balance_sheet", "fmp_income_statement", "fmp_cash_flow_statement",
      "fmp_financial_ratios", "fmp_key_metrics", "fmt_stock_news",
      "fmp_standard_deviation", "fmp_relative_strength_index",
      "fmp_simple_moving_average" }

ScraperTools == { "gurufocus_dcf" }

ToolNames == SharedClientTools \cup DirectTools \cup ScraperTools

\* What requests.get / response.json() can do.
HttpOutcomes == { "ok_200", "ok_200_body_not_json", "status_404", "status_500", "network_exception" }

HttpFailures == { "status_404", "status_500", "network_exception" }

\* What the scraped page can hold when the status is 200.
PageShapes == { "complete", "no_nuxt_script", "no_price" }

\* Values a wrapper hands to its caller.
RetData     == [kind |-> "data",  hasError |-> FALSE]   \* parsed JSON body / JSON text
RetErrDict  == [kind |-> "dict",  hasError |-> TRUE]    \* {"error": ...}
RetNone     == [kind |-> "none",  hasError |-> FALSE]   \* None
RetRaised   == [kind |-> "raised", hasError |-> FALSE]  \* an exception reached the caller

\* utils/fmp_api_client.py: make_fmp_api_request
make_fmp_api_request(keySet, http) ==
    IF ~keySet THEN RetErrDict
    ELSE CASE http = "ok_200"               -> RetData
           [] http = "ok_200_body_not_json" -> RetErrDict   \* except Exception
           [] http \in {"status_404", "status_500"} -> RetErrDict
           [] http = "network_exception"    -> RetErrDict   \* except RequestException

\* e.g. balance_sheet_analyst/tools/fmp_balance_sheet.py: no try/except at all
direct_tool(keySet, http) ==
    IF ~keySet THEN RetRaised                                \* os.environ[...] KeyError
    ELSE CASE http = "ok_200"               -> RetData
           [] http = "ok_200_body_not_json" -> RetRaised     \* response.json() raises
           [] http \in {"status_404", "status_500"} -> RetErrDict
           [] http = "network_exception"    -> RetRaised     \* requests.get raises

\* intrinsic_value_analyst/tools/gurufocus_dcf_valuation.py
gurufocus_dcf(http, page) ==
    CASE http \in {"status_404", "status_500"} -> RetNone    \* raise_for_status, printed, falls off the end
      [] http = "network_exception"            -> RetNone
      [] http \in {"ok_200", "ok_200_body_not_json"} ->
            IF page = "complete" THEN RetData ELSE RetNone   \* bare "return"

CallTool(tool, keySet, http, page) ==
    CASE tool \in SharedClientTools -> make_fmp_api_request(keySet, http)
      [] tool \in DirectTools       -> direct_tool(keySet, http)
      [] tool \in ScraperTools      -> gurufocus_dcf(http, page)

NoToolCall == [tool |-> "none", keySet |-> FALSE, http |-> "ok_200", page |-> "complete", ret |-> RetNone]

ToolsIdle == toolCall = NoToolCall

ToolInvoke ==
    \E tool \in ToolNames, keySet \in BOOLEAN, http \in HttpOutcomes, page \in PageShapes :
        /\ (tool \notin ScraperTools => page = "complete")
        /\ toolCall' = [tool |-> tool, keySet |-> keySet, http |-> http, page |-> page,
                        ret |-> CallTool(tool, keySet, http, page)]

toolsRest == <<storageVars, pmVars, cfgVars, instrVars, pipeVars, genVars, apiVars, legVars, trVars, logVars, queryVars>>

ToolsNext == ToolInvoke /\ UNCHANGED toolsRest

\* C1: every tool wrapper, given a non-200 status or a network exception,
\* returns a dictionary with the key "error" and lets no exception reach
\* the caller.
C1_ToolErrorContract ==
    (toolCall.tool # "none" /\ toolCall.http \in HttpFailures)
        => (toolCall.ret.kind = "dict" /\ toolCall.ret.hasError)

(***************************************************************************)
(* PART 2.  Result storage                                                 *)
(***************************************************************************)

\* The number of save_agent_result calls of a run.
MaxSaves == 2

\* re's \w over the characters used here.
WordChars == {"a", "s", "u", "t", "h", "f", "1"}

\* re.sub(r'[^\w\-_]', '_', s)
Sanitize(s) == [i \in 1..Len(s) |-> IF s[i] \in WordChars \cup {"-", "_"} THEN s[i] ELSE "_"]

UserIds      == { <<"u", ".", "1">>, <<"u", "_", "1">> }
SessionIds   == { <<"s">>, <<"s", "_", "a">> }
StockSymbols == { <<"a">>, <<"a", "_", "a">> }
AgentNames   == { <<"t", "a">>, <<".", ".", "/", "t">> }
Contents     == { "X", "Y" }

StorageKeys == UserIds \X SessionIds \X StockSymbols \X AgentNames

BaseDir == <<"r", "e", "s", "u", "l", "t", "s">>

\* _get_folder_path: base_dir / f"user_{safe_user_id}" / f"session_{safe_session_id}_{safe_stock_symbol}"
\* A path is the sequence of its components.
FolderPath(user_id, session_id, stock_symbol) ==
    << BaseDir,
       <<"u", "s", "e", "r", "_">> \o Sanitize(user_id),
       <<"s", "e", "s", "s", "i", "o", "n", "_">> \o Sanitize(session_id)
            \o <<"_">> \o Sanitize(stock_symbol) >>

\* The components pathlib makes of a relative path string: split at "/",
\* empty and "." components dropped, ".." kept.
RECURSIVE Components(_)
Components(s) ==
    IF s = << >> THEN << >>
    ELSE LET slashes == { i \in 1..Len(s) : s[i] = "/" }
             e == IF slashes = {} THEN Len(s) + 1
                  ELSE CHOOSE i \in slashes : \A j \in slashes : i <= j
             head == SubSeq(s, 1, e - 1)
             rest == Components(SubSeq(s, e + 1, Len(s)))
         IN IF head \in { << >>, <<".">> } THEN rest ELSE <<head>> \o rest

\* folder_path / f"{agent_name}.json"
FilePath(key) ==
    FolderPath(key[1], key[2], key[3]) \o Components(key[4] \o <<".", "j", "s", "o", "n">>)

\* The file open() reaches for a path: the operating system walks the
\* components and ".." steps to the parent (of a folder that exists).
RECURSIVE Opened(_)
Opened(path) ==
    IF path = << >> THEN << >>
    ELSE LET front == Opened(SubSeq(path, 1, Len(path) - 1))
             last == path[Len(path)]
         IN IF last = <<".", ".">>
            THEN SubSeq(front, 1, Len(front) - 1)
            ELSE Append(front, last)

\* result_data of save_agent_result; json.dump followed by json.load gives the
\* same dictionary back (string values, "metadata or {}").
ResultData(key, content, now) ==
    [ agent_name |-> key[4], content |-> content, timestamp |-> now,
      user_id |-> key[1], session_id |-> key[2], stock_symbol |-> key[3],
      metadata |-> "{}" ]

NotFound == [found |-> FALSE]

StorageIdle ==
    /\ files = << >>
    /\ clock = 0
    /\ lastSaved = << >>
    /\ storageOp = [op |-> "none"]

Without(f, k) == [x \in DOMAIN f \ {k} |-> f[x]]
With(f, k, v) == [x \in DOMAIN f \cup {k} |-> IF x = k THEN v ELSE f[x]]

\* folder_path.mkdir(parents=True, exist_ok=True)
MkDir(key) == With(files, FolderPath(key[1], key[2], key[3]), [state |-> "dir"])

\* save_agent_result.  io: what the file system does under it.
SaveAgentResult(key, content, io) ==
    /\ clock < MaxSaves
    /\ clock' = clock + 1
    /\ CASE io = "ok" ->
              /\ files' = With(MkDir(key), Opened(FilePath(key)),
                               [state |-> "json", data |-> ResultData(key, content, clock)])
              /\ lastSaved' = With(lastSaved, key, content)
              /\ storageOp' = [op |-> "save", key |-> key, ret |-> TRUE]
         [] io = "mkdir_fails" ->          \* nothing written
              /\ files' = files
              /\ lastSaved' = Without(lastSaved, key)
              /\ storageOp' = [op |-> "save", key |-> key, ret |-> FALSE]
         [] io = "write_fails" ->          \* open(..., 'w') truncated the file
              /\ files' = With(MkDir(key), Opened(FilePath(key)), [state |-> "partial"])
              /\ lastSaved' = Without(lastSaved, key)
              /\ storageOp' = [op |-> "save", key |-> key, ret |-> FALSE]

Save ==
    \E key \in StorageKeys, content \in Contents, io \in {"ok", "mkdir_fails", "write_fails"} :
        SaveAgentResult(key, content, io)

\* load_agent_result: None when the file is missing or cannot be read or parsed.
LoadResult(key, io) ==
    IF FolderPath(key[1], key[2], key[3]) \notin DOMAIN files THEN NotFound
    ELSE IF Opened(FilePath(key)) \notin DOMAIN files THEN NotFound
    ELSE IF io = "read_fails" \/ files[Opened(FilePath(key))].state # "json" THEN NotFound
    ELSE [found |-> TRUE, data |-> files[Opened(FilePath(key))].data]

Load ==
    \E key \in StorageKeys, io \in {"ok", "read_fails"} :
        /\ storageOp' = [op |-> "load", key |-> key, io |-> io, ret |-> LoadResult(key, io)]
        /\ UNCHANGED <<files, clock, lastSaved>>

storageRest == <<toolVars, pmVars, cfgVars, instrVars, pipeVars, genVars, apiVars, legVars, trVars, logVars, queryVars>>

StorageNext ==
    \/ Save /\ UNCHANGED storageRest
    \/ Load /\ UNCHANGED storageRest

\* C2: after a save that returned True, a load with the same four identifiers
\* (no other save to that key in between) returns the saved content and the
\* saved identifiers.
C2_RoundTrip ==
    (/\ storageOp.op = "load"
     /\ storageOp.io = "ok"
     /\ storageOp.key \in DOMAIN lastSaved)
        => /\ storageOp.ret.found
           /\ storageOp.ret.data.content = lastSaved[storageOp.key]
           /\ storageOp.ret.data.user_id = storageOp.key[1]
           /\ storageOp.ret.data.session_id = storageOp.key[2]
           /\ storageOp.ret.data.stock_symbol = storageOp.key[3]
           /\ storageOp.ret.data.agent_name = storageOp.key[4]

\* C12: the file save_agent_result writes and load_agent_result reads is a
\* direct child of base_dir/user_<sanitized user_id>/session_<sanitized
\* session_id>_<sanitized stock_symbol>/ named <agent_name>.json, and no file
\* is ever written outside a session folder.
C12_FileInsideSessionFolder ==
    /\ storageOp.op \in {"save", "load"} =>
          Opened(FilePath(storageOp.key)) =
              Append(FolderPath(storageOp.key[1], storageOp.key[2], storageOp.key[3]),
                     storageOp.key[4] \o <<".", "j", "s", "o", "n">>)
    /\ \A path \in DOMAIN files :
          files[path].state # "dir" =>
          /\ Len(path) = 4
          /\ \E key \in StorageKeys :
                SubSeq(path, 1, 3) = FolderPath(key[1], key[2], key[3])

\* C24: a result saved under one triple (user_id, session_id, stock_symbol)
\* is never returned by load_agent_result for another triple: what a load
\* returns was saved under the triple it was asked for.  (Agent names that go
\* through "..", the case of C12, are left aside: the agent is a plain name.)
C24_LoadStaysInsideTriple ==
    (/\ storageOp.op = "load"
     /\ storageOp.key[4] = <<"t", "a">>
     /\ storageOp.ret.found)
        => /\ storageOp.ret.data.user_id = storageOp.key[1]
           /\ storageOp.ret.data.session_id = storageOp.key[2]
           /\ storageOp.ret.data.stock_symbol = storageOp.key[3]

(***************************************************************************)
(* PART 3.  The project manager's output and parse_pm_json_output          *)
(***************************************************************************)

\* ---- Python values held in the session state (and JSON values)
Absent      == [t |-> "absent"]                 \* the key is not in the state
JStr(s)     == [t |-> "str", s |-> s]
JNum(d)     == [t |-> "num", n |-> d]
JNull       == [t |-> "null"]
JList(l)    == [t |-> "list", l |-> l]
JObj(o)     == [t |-> "obj", o |-> o]           \* a dict: key -> value
EmptyObj    == JObj(<< >>)

Q == "\""
\* the backtick character
BT == "BT"
Whitespace == {" "}
Digits == {"1", "2"}

\* ---- json.dumps of the values used as project-manager answers
KeyOrder == << <<"k">>, <<"m">> >>

RECURSIVE Dumps(_), DumpMembers(_, _, _), DumpItems(_, _)

DumpMembers(o, i, first) ==
    IF i > Len(KeyOrder) THEN << >>
    ELSE IF KeyOrder[i] \notin DOMAIN o THEN DumpMembers(o, i + 1, first)
    ELSE (IF first THEN << >> ELSE <<",", " ">>)
            \o <<Q>> \o KeyOrder[i] \o <<Q, ":", " ">> \o Dumps(o[KeyOrder[i]])
            \o DumpMembers(o, i + 1, FALSE)

DumpItems(l, i) ==
    IF i > Len(l) THEN << >>
    ELSE (IF i = 1 THEN << >> ELSE <<",", " ">>) \o Dumps(l[i]) \o DumpItems(l, i + 1)

Dumps(v) ==
    CASE v.t = "str"  -> <<Q>> \o v.s \o <<Q>>
      [] v.t = "num"  -> v.n
      [] v.t = "null" -> <<"n", "u", "l", "l">>
      [] v.t = "list" -> <<"[">> \o DumpItems(v.l, 1) \o <<"]">>
      [] v.t = "obj"  -> <<"{">> \o DumpMembers(v.o, 1, TRUE) \o <<"}">>

\* ---- json.loads: a recursive-descent parser over the characters
StartsWith(s, i, pat) ==
    /\ i >= 1
    /\ i + Len(pat) - 1 <= Len(s)
    /\ \A j \in 1..Len(pat) : s[i + j - 1] = pat[j]

RECURSIVE SkipWs(_, _)
SkipWs(s, i) == IF i <= Len(s) /\ s[i] \in Whitespace THEN SkipWs(s, i + 1) ELSE i

RECURSIVE FindChar(_, _, _)
\* the first position >= i that holds c, or 0
FindChar(s, i, c) ==
    IF i > Len(s) THEN 0 ELSE IF s[i] = c THEN i ELSE FindChar(s, i + 1, c)

RECURSIVE DigitsEnd(_, _)
DigitsEnd(s, i) == IF i <= Len(s) /\ s[i] \in Digits THEN DigitsEnd(s, i + 1) ELSE i

Fail == [ok |-> FALSE]
Parsed(v, next) == [ok |-> TRUE, v |-> v, next |-> next]

ParseString(s, i) ==
    IF i > Len(s) \/ s[i] # Q THEN Fail
    ELSE LET j == FindChar(s, i + 1, Q)
         IN  IF j = 0 THEN Fail ELSE Parsed(JStr(SubSeq(s, i + 1, j - 1)), j + 1)

RECURSIVE ParseValue(_, _), ParseMembers(_, _, _), ParseItems(_, _, _)

\* after "{" or ",": a member "key": value, then "," or "}"
ParseMembers(s, i, acc) ==
    LET k == ParseString(s, SkipWs(s, i))
    IN  IF ~k.ok THEN Fail
        ELSE LET c == SkipWs(s, k.next)
             IN  IF c > Len(s) \/ s[c] # ":" THEN Fail
                 ELSE LET v == ParseValue(s, c + 1)
                      IN  IF ~v.ok THEN Fail
                          ELSE LET e == SkipWs(s, v.next)
                                   acc2 == [x \in DOMAIN acc \cup {k.v.s} |->
                                               IF x = k.v.s THEN v.v ELSE acc[x]]
                               IN  IF e > Len(s) THEN Fail
                                   ELSE IF s[e] = "}" THEN Parsed(JObj(acc2), e + 1)
                                   ELSE IF s[e] = "," THEN ParseMembers(s, e + 1, acc2)
                                   ELSE Fail

ParseItems(s, i, acc) ==
    LET v == ParseValue(s, i)
    IN  IF ~v.ok THEN Fail
        ELSE LET e == SkipWs(s, v.next)
             IN  IF e > Len(s) THEN Fail
                 ELSE IF s[e] = "]" THEN Parsed(JList(Append(acc, v.v)), e + 1)
                 ELSE IF s[e] = "," THEN ParseItems(s, e + 1, Append(acc, v.v))
                 ELSE Fail

ParseValue(s, i0) ==
    LET i == SkipWs(s, i0)
    IN  IF i > Len(s) THEN Fail
        ELSE CASE s[i] = Q   -> ParseString(s, i)
               [] s[i] = "{" ->
                    LET j == SkipWs(s, i + 1)
                    IN  IF j <= Len(s) /\ s[j] = "}" THEN Parsed(EmptyObj, j + 1)
                        ELSE ParseMembers(s, i + 1, << >>)
               [] s[i] = "[" ->
                    LET j == SkipWs(s, i + 1)
                    IN  IF j <= Len(s) /\ s[j] = "]" THEN Parsed(JList(<< >>), j + 1)
                        ELSE ParseItems(s, i + 1, << >>)
               [] s[i] \in Digits -> Parsed(JNum(SubSeq(s, i, DigitsEnd(s, i) - 1)), DigitsEnd(s, i))
               [] StartsWith(s, i, <<"n", "u", "l", "l">>) -> Parsed(JNull, i + 4)
               [] OTHER -> Fail

\* json.loads(s): one value, then only whitespace
JsonLoads(s) ==
    LET v == ParseValue(s, 1)
    IN  IF v.ok /\ SkipWs(s, v.next) > Len(s) THEN v ELSE Fail

\* ---- re.search(r'<fence>json\s*(\{.*?\})\s*<fence>', pm_output, re.DOTALL),
\* <fence> being three backticks
FenceOpen  == <<BT, BT, BT, "j", "s", "o", "n">>
FenceClose == <<BT, BT, BT>>

\* the ends e of group 1 for a match starting at i: s[e] = "}" followed by \s* and the fence
GroupEnds(s, i) ==
    LET p == SkipWs(s, i + Len(FenceOpen))
    IN  IF StartsWith(s, i, FenceOpen) /\ p <= Len(s) /\ s[p] = "{"
        THEN { e \in (p + 1)..Len(s) : s[e] = "}" /\ StartsWith(s, SkipWs(s, e + 1), FenceClose) }
        ELSE {}

Min(S) == CHOOSE x \in S : \A y \in S : x <= y

\* the leftmost match, and for it the shortest group (.*? is lazy)
FenceSearch(s) ==
    LET starts == { i \in 1..Len(s) : GroupEnds(s, i) # {} }
    IN  IF starts = {} THEN [matched |-> FALSE]
        ELSE LET i == Min(starts)
                 p == SkipWs(s, i + Len(FenceOpen))
             IN  [matched |-> TRUE, group |-> SubSeq(s, p, Min(GroupEnds(s, i)))]

\* ---- parse_pm_json_output
PreviewLimit == 80

Size(v) ==
    CASE v.t = "str"  -> Len(v.s)
      [] v.t = "list" -> Len(v.l)
      [] v.t = "obj"  -> Cardinality(DOMAIN v.o)
      [] OTHER        -> 0

\* value[:80] + "..." if len(value) > 80 else value
PreviewRaises(v) ==
    \/ v.t \in {"num", "null"}                                   \* len() of a number or of None
    \/ v.t \in {"list", "obj"} /\ Size(v) > PreviewLimit         \* list + str, slicing a dict

\* bool(pm_output)
Truthy(v) ==
    CASE v.t \in {"absent", "null"} -> FALSE
      [] v.t = "num"                -> v.n # <<"0">>
      [] OTHER                      -> Size(v) > 0

\* lines 34-41 after json.loads gave v: store it, len(), the preview loop
StoreAndPreviewRaises(v) ==
    \/ v.t \in {"num", "null"}                                   \* len(instructions_dict)
    \/ v.t \in {"str", "list"}                                   \* .items()
    \/ v.t = "obj" /\ \E k \in DOMAIN v.o : PreviewRaises(v.o[k])

\* the except clause without its assignment: the state keeps what it held
OnException_KeepsStored(stored) == stored

\* lines 43-47: whatever raised inside the try, the state ends as {}
\* (stored: what the state held when the exception was raised)
OnException(stored) == EmptyObj

\* lines 25-47 for a non-empty string pm_output
ParseText(s) ==
    LET m == FenceSearch(s)
        r == IF m.matched THEN JsonLoads(m.group) ELSE JsonLoads(s)
    IN  IF ~r.ok THEN OnException(JStr(s))
        ELSE IF StoreAndPreviewRaises(r.v) THEN OnException(r.v)
        ELSE r.v

\* the value of state["pm_instructions"] when the callback returns
ParsePmJsonOutput(before) ==
    LET pm_output == IF before.t = "absent" THEN JStr(<< >>) ELSE before
    IN  IF ~Truthy(pm_output) \/ pm_output.t # "str"
        THEN IF pm_output.t = "obj" THEN before ELSE EmptyObj
        ELSE ParseText(pm_output.s)

\* ---- the answers of the project manager used here
PmKeys == { <<"k">>, <<"m">> }

PmStrings ==
    { << >>, <<"a">>, <<"{", "a", "}">>, <<BT, BT, BT>>,
      <<"}", BT, BT, BT>>, <<"a", "}", " ", BT, BT, BT, "a">> }

PmValues ==
    { JStr(s) : s \in PmStrings }
        \cup { JNum(<<"1">>), JNull, JList(<< >>), JList(<<JStr(<<"a">>)>>),
               JObj(<<"k">> :> JStr(<<"a">>)) }

PmObjects ==
    { EmptyObj }
        \cup { JObj(<<"k">> :> v) : v \in PmValues }
        \cup { JObj(<<"k">> :> v @@ <<"m">> :> JStr(<<"a">>)) : v \in PmValues }

\* text around and inside the fence
FencePrefixes == { << >>, <<"a", " ">> }
FenceSuffixes == { << >>, <<" ", "a">> }
FenceSpaces   == { << >>, <<" ">> }

Fenced(text, pre, ws, suf) == pre \o FenceOpen \o ws \o text \o ws \o FenceClose \o suf

\* answers that are no JSON object: malformed JSON, JSON of another type
PmOtherTexts ==
    { <<"a">>, <<"{">>, <<"{", Q, "k", Q, "}">>, <<"{", Q, "k", Q, ":", "}">>,
      <<"{", "}", "a">>, <<"[", "1", "]">>, <<"1">>, <<"n", "u", "l", "l">>,
      <<Q, "a", Q>>, <<"[", "]">>,
      Fenced(<<"{", "a", "}">>, << >>, << >>, << >>),
      Fenced(<<"[", "1", "]">>, << >>, << >>, << >>) }

\* what the state can hold under the key before the agent runs
PmInitialValues ==
    { Absent, JStr(<< >>), JNum(<<"1">>), JNum(<<"0">>), JNull, JList(<< >>),
      JList(<<JStr(<<"a">>)>>), EmptyObj, JObj(<<"k">> :> JStr(<<"a">>)) }

NoSource == [form |-> "none"]

PmIdle ==
    /\ pmState = Absent
    /\ pmPhase = "idle"
    /\ pmSource = NoSource
    /\ pmBefore = Absent

PmInit ==
    /\ pmState \in PmInitialValues
    /\ pmPhase = "start"
    /\ pmSource = NoSource
    /\ pmBefore = Absent

\* output_key="pm_instructions": the final answer text is stored under the key
PmAnswerBare ==
    \E o \in PmObjects :
        /\ pmPhase = "start"
        /\ pmState' = JStr(Dumps(o))
        /\ pmSource' = [form |-> "bare", bare |-> Dumps(o)]
        /\ pmPhase' = "output"
        /\ UNCHANGED pmBefore

PmAnswerFenced ==
    \E o \in PmObjects, pre \in FencePrefixes, ws \in FenceSpaces, suf \in FenceSuffixes :
        /\ pmPhase = "start"
        /\ pmState' = JStr(Fenced(Dumps(o), pre, ws, suf))
        /\ pmSource' = [form |-> "fenced", bare |-> Dumps(o)]
        /\ pmPhase' = "output"
        /\ UNCHANGED pmBefore

PmAnswerOther ==
    \E s \in PmOtherTexts :
        /\ pmPhase = "start"
        /\ pmState' = JStr(s)
        /\ pmSource' = [form |-> "other"]
        /\ pmPhase' = "output"
        /\ UNCHANGED pmBefore

\* the agent ends without a final text: nothing is stored
PmNoAnswer ==
    /\ pmPhase = "start"
    /\ pmPhase' = "output"
    /\ UNCHANGED <<pmState, pmSource, pmBefore>>

\* after_agent_callback=parse_pm_json_output
ParseCallback ==
    /\ pmPhase = "output"
    /\ pmState' = ParsePmJsonOutput(pmState)
    /\ pmBefore' = pmState
    /\ pmPhase' = "parsed"
    /\ UNCHANGED pmSource

pmRest == <<toolVars, storageVars, cfgVars, instrVars, pipeVars, genVars, apiVars, legVars, trVars, logVars, queryVars>>

PmNext ==
    \/ PmAnswerBare /\ UNCHANGED pmRest
    \/ PmAnswerFenced /\ UNCHANGED pmRest
    \/ PmAnswerOther /\ UNCHANGED pmRest
    \/ PmNoAnswer /\ UNCHANGED pmRest
    \/ ParseCallback /\ UNCHANGED pmRest

\* C3: a JSON object wrapped in a json fence of three backticks (with optional text around it)
\* gives the same pm_instructions as the same object as a bare string.
C3_FencedEqualsBare ==
    (pmPhase = "parsed" /\ pmSource.form = "fenced")
        => pmState = ParsePmJsonOutput(JStr(pmSource.bare))

\* C14: when the project manager's answer is a valid JSON object, bare or
\* fenced, pm_instructions after the callback is that object as json.loads
\* gives it, whatever the types of its values.
C14_ValidObjectIsKept ==
    (pmPhase = "parsed" /\ pmSource.form \in {"bare", "fenced"})
        => /\ JsonLoads(pmSource.bare).ok
           /\ pmState = JsonLoads(pmSource.bare).v

\* a value that is no JSON object: absent, a non-string that is no dict, the
\* empty string, malformed JSON text, JSON text of another type
NotAnObject(b) ==
    /\ b.t # "obj"
    /\ b.t = "str" => b.s \in PmOtherTexts \cup { << >> }

\* C4: whatever the key held before the callback, the callback returns and
\* leaves a mapping under the key, and the mapping is empty whenever the
\* value could not be parsed as a JSON object.
C4_ParseLeavesMapping ==
    pmPhase = "parsed"
        => /\ pmState.t = "obj"
           /\ NotAnObject(pmBefore) => pmState = EmptyObj

C4_Witness ==
    /\ pmPhase = "parsed"
    /\ pmBefore = JStr(<<"[", "1", "]">>)
    /\ pmState = EmptyObj

(***************************************************************************)
(* PART 4.  Model configuration: FirestoreClient and FirestoreConfig       *)
(***************************************************************************)

\* The number of calls of a run.
MaxCalls == 3
MaxWrites == 1

DEFAULT_MODEL == "gemini-2.5-flash"
\* stands for the default instruction text of the source
DEFAULT_SHARED_INSTRUCTION == "DEFAULT_SHARED_INSTRUCTION"
SHARED_INSTRUCTION_DOC_ID == "shared_instruction"

\* Document ids of stock_agents, in the order the stream yields them.
DocOrder == << "balance_sheet_agent", "senior_quantitative_advisor_agent", "shared_instruction" >>
DocIds == { DocOrder[i] : i \in 1..Len(DocOrder) }
QueryNames == DocIds \cup { "unknown_agent" }

NoDoc == [exists |-> FALSE]
DocWithoutField == [exists |-> TRUE, hasField |-> FALSE]
DocWith(v) == [exists |-> TRUE, hasField |-> TRUE, value |-> v]

AgentDocValues == { NoDoc, DocWithoutField, DocWith("gemini-2.5-pro") }
CompanyDocValues == { NoDoc, DocWithoutField, DocWith("company description") }

\* FIREBASE_CREDENTIALS_PATH unset / naming no file / naming a file that is no
\* certificate, initialize_app raising, firestore.client() raising, all well.
FsEnvs == { "cred_unset", "cred_file_missing", "certificate_raises",
            "initialize_app_raises", "client_raises", "ok" }

\* FirestoreClient.get_client.  Every path sets _initialized.
get_client(initialized, instance, env, apps) ==
    IF initialized
    THEN [initialized |-> TRUE, instance |-> instance, apps |-> apps]
    ELSE CASE env \in {"cred_unset", "cred_file_missing"} ->
                 [initialized |-> TRUE, instance |-> instance, apps |-> apps]
           [] env \in {"certificate_raises", "initialize_app_raises"} ->
                 [initialized |-> TRUE, instance |-> instance, apps |-> apps]
           [] env = "client_raises" ->
                 [initialized |-> TRUE, instance |-> instance, apps |-> apps + 1]
           [] env = "ok" ->
                 [initialized |-> TRUE, instance |-> "client", apps |-> apps + 1]

\* The documents the stream yields: the existing ones, in order.
RECURSIVE StreamFrom(_, _)
StreamFrom(docs, i) ==
    IF i > Len(DocOrder) THEN << >>
    ELSE IF docs[DocOrder[i]].exists
         THEN << DocOrder[i] >> \o StreamFrom(docs, i + 1)
         ELSE StreamFrom(docs, i + 1)

Stream(docs) == StreamFrom(docs, 1)

\* the for loop of load_configs over the first n streamed documents
RECURSIVE CacheDocs(_, _, _, _)
CacheDocs(cache, docs, ids, n) ==
    IF n = 0 THEN cache
    ELSE LET c == CacheDocs(cache, docs, ids, n - 1)
             d == docs[ids[n]]
         IN  IF d.hasField THEN With(c, ids[n], d.value) ELSE c

\* the shared-instruction block of load_configs (its own try/except)
CacheShared(cache, company, fetch) ==
    IF fetch = "raises" THEN cache
    ELSE IF ~company.exists THEN cache
    ELSE IF company.hasField THEN With(cache, SHARED_INSTRUCTION_DOC_ID, company.value)
    ELSE With(cache, SHARED_INSTRUCTION_DOC_ID, DEFAULT_SHARED_INSTRUCTION)

\* _loaded as the outer except clause leaves it
LoadedAfterFailure_Unchanged(loaded) == loaded

\* line 224: cls._loaded = True  # Prevent retry loop
LoadedAfterFailure(loaded) == TRUE

\* FirestoreConfig.load_configs on the class state S.  streamFails/readBefore:
\* the stream raises after readBefore documents were handled; fetch: what the
\* get() of the shared-instruction document does.
load_configs(S, env, docs, company, streamFails, readBefore, fetch) ==
    IF S.loaded
    THEN [S EXCEPT !.queried = FALSE, !.outcome = "skipped"]
    ELSE LET g == get_client(S.initialized, S.instance, env, S.apps)
             T == [S EXCEPT !.initialized = g.initialized, !.instance = g.instance,
                            !.apps = g.apps]
             ids == Stream(docs)
         IN  IF g.instance = "None"
             THEN [T EXCEPT !.loaded = TRUE, !.queried = FALSE, !.outcome = "no_client"]
             ELSE IF streamFails
             THEN [T EXCEPT !.cache = CacheDocs(S.cache, docs, ids, readBefore),
                            !.loaded = LoadedAfterFailure(S.loaded),
                            !.queried = TRUE, !.outcome = "stream_failed"]
             ELSE [T EXCEPT !.cache = CacheShared(CacheDocs(S.cache, docs, ids, Len(ids)),
                                                  company, fetch),
                            !.loaded = TRUE, !.queried = TRUE, !.outcome = "ok"]

\* get_model after its load: the cache entry, else the default
get_model(cache, agent_name) ==
    IF agent_name \in DOMAIN cache THEN cache[agent_name] ELSE DEFAULT_MODEL

\* get_shared_instruction after its load
get_shared_instruction(cache) ==
    IF SHARED_INSTRUCTION_DOC_ID \in DOMAIN cache
    THEN cache[SHARED_INSTRUCTION_DOC_ID] ELSE DEFAULT_SHARED_INSTRUCTION

CfgState ==
    [ initialized |-> fsInitialized, instance |-> fsInstance, apps |-> cfgHist.apps,
      cache |-> cfgCache, loaded |-> cfgLoaded, queried |-> FALSE, outcome |-> "skipped" ]

NoCfgCall == [op |-> "none"]

NoCfgHist ==
    [ calls |-> 0, queriedAt |-> {}, apps |-> 0, reloads |-> 0, lastLoad |-> "none",
      writes |-> 0 ]

CfgStart ==
    /\ fsInitialized = FALSE
    /\ fsInstance = "None"
    /\ cfgCache = << >>
    /\ cfgLoaded = FALSE
    /\ cfgCall = NoCfgCall
    /\ cfgHist = NoCfgHist

CfgIdle ==
    /\ CfgStart
    /\ fsEnv = "cred_unset"
    /\ agentDocs = [d \in DocIds |-> NoDoc]
    /\ companyDoc = NoDoc

CfgInit ==
    /\ CfgStart
    /\ fsEnv \in FsEnvs
    /\ agentDocs \in [DocIds -> AgentDocValues]
    /\ companyDoc \in CompanyDocValues

\* The class state after a call, and the call's record.
CfgCommit(R, call, isReload) ==
    /\ cfgHist.calls < MaxCalls
    /\ fsInitialized' = R.initialized
    /\ fsInstance' = R.instance
    /\ cfgCache' = R.cache
    /\ cfgLoaded' = R.loaded
    /\ cfgCall' = call
    /\ cfgHist' = [ calls |-> cfgHist.calls + 1,
                    queriedAt |-> IF R.queried THEN cfgHist.queriedAt \cup {cfgHist.calls + 1}
                                  ELSE cfgHist.queriedAt,
                    apps |-> R.apps,
                    reloads |-> cfgHist.reloads + (IF isReload THEN 1 ELSE 0),
                    lastLoad |-> IF R.outcome = "skipped" THEN cfgHist.lastLoad ELSE R.outcome,
                    writes |-> cfgHist.writes ]
    /\ UNCHANGED <<fsEnv, agentDocs, companyDoc>>

\* What load_configs can leave from class state S: the store may fail while
\* the documents stream (after any number of them) and while the shared
\* instruction is fetched.
LoadOutcomes(S) ==
    { load_configs(S, fsEnv, agentDocs, companyDoc, streamFails, readBefore, fetch) :
        streamFails \in BOOLEAN, readBefore \in 0..Len(Stream(agentDocs)),
        fetch \in {"ok", "raises"} }

LoadConfigs ==
    \E R \in LoadOutcomes(CfgState) :
        CfgCommit(R, [op |-> "load_configs"], FALSE)

GetModel ==
    \E agent_name \in QueryNames, R \in LoadOutcomes(CfgState) :
        CfgCommit(R, [op |-> "get_model", name |-> agent_name,
                      ret |-> get_model(R.cache, agent_name)], FALSE)

\* lite_llm_model(agent_name) with a name: FirestoreConfig.get_model(agent_name)
LiteLlmModel ==
    \E agent_name \in QueryNames, R \in LoadOutcomes(CfgState) :
        CfgCommit(R, [op |-> "lite_llm_model", name |-> agent_name,
                      ret |-> get_model(R.cache, agent_name)], FALSE)

\* lite_llm_model(): the default, FirestoreConfig is not called
LiteLlmModelNoName ==
    /\ cfgCall' = [op |-> "lite_llm_model", name |-> "None", ret |-> DEFAULT_MODEL]
    /\ UNCHANGED <<fsInitialized, fsInstance, cfgCache, cfgLoaded, fsEnv, agentDocs,
                   companyDoc, cfgHist>>

\* what each agent factory passes to lite_llm_model: its own name, or nothing
FactoryModelArg ==
    [ balance_sheet_agent |-> "balance_sheet_agent",
      senior_quantitative_advisor_agent |-> "None" ]

\* create_<agent>_agent(): LlmAgent(name=..., model=lite_llm_model(...), ...)
CreateAgent ==
    \E agent \in DOMAIN FactoryModelArg :
        IF FactoryModelArg[agent] = "None"
        THEN /\ cfgCall' = [op |-> "create_agent", name |-> agent, ret |-> DEFAULT_MODEL]
             /\ UNCHANGED <<fsInitialized, fsInstance, cfgCache, cfgLoaded, fsEnv, agentDocs,
                            companyDoc, cfgHist>>
        ELSE \E R \in LoadOutcomes(CfgState) :
                CfgCommit(R, [op |-> "create_agent", name |-> agent,
                              ret |-> get_model(R.cache, FactoryModelArg[agent])], FALSE)

GetSharedInstruction ==
    \E R \in LoadOutcomes(CfgState) :
        CfgCommit(R, [op |-> "get_shared_instruction",
                      ret |-> get_shared_instruction(R.cache)], FALSE)

GetAllConfigs ==
    \E R \in LoadOutcomes(CfgState) :
        CfgCommit(R, [op |-> "get_all_configs", ret |-> R.cache], FALSE)

\* reload_configs: _cache.clear(); _loaded = False; load_configs()
ReloadConfigs ==
    \E R \in LoadOutcomes([CfgState EXCEPT !.cache = << >>, !.loaded = FALSE]) :
        CfgCommit(R, [op |-> "reload_configs"], TRUE)

\* The store and the process environment are outside the class: between two
\* calls an operator may delete one stock_agents document or set its
\* llm_model (what scripts/populate_firestore.py does), and the credentials
\* or the store may become available.  Neither touches the class state; cfgCall
\* names the call that has just returned, so both reset it.
StoreWrite ==
    /\ cfgHist.calls >= 1
    /\ cfgHist.calls < MaxCalls
    /\ cfgHist.writes < MaxWrites
    /\ \E d \in DocIds \ {SHARED_INSTRUCTION_DOC_ID} :
       \E v \in {NoDoc, DocWith("gemini-2.0-flash")} \ {agentDocs[d]} :
          agentDocs' = [agentDocs EXCEPT ![d] = v]
    /\ cfgHist' = [cfgHist EXCEPT !.writes = @ + 1]
    /\ cfgCall' = NoCfgCall
    /\ UNCHANGED <<fsInitialized, fsInstance, cfgCache, cfgLoaded, fsEnv, companyDoc>>

EnvRepaired ==
    /\ cfgHist.calls >= 1
    /\ cfgHist.calls < MaxCalls
    /\ fsEnv # "ok"
    /\ fsEnv' = "ok"
    /\ cfgCall' = NoCfgCall
    /\ UNCHANGED <<fsInitialized, fsInstance, cfgCache, cfgLoaded, agentDocs, companyDoc,
                   cfgHist>>

cfgRest == <<toolVars, storageVars, pmVars, instrVars, pipeVars, genVars, apiVars, legVars, trVars, logVars, queryVars>>

CfgNext ==
    \/ LoadConfigs /\ UNCHANGED cfgRest
    \/ GetModel /\ UNCHANGED cfgRest
    \/ LiteLlmModel /\ UNCHANGED cfgRest
    \/ LiteLlmModelNoName /\ UNCHANGED cfgRest
    \/ GetSharedInstruction /\ UNCHANGED cfgRest
    \/ GetAllConfigs /\ UNCHANGED cfgRest
    \/ ReloadConfigs /\ UNCHANGED cfgRest
    \/ CreateAgent /\ UNCHANGED cfgRest
    \/ StoreWrite /\ UNCHANGED cfgRest
    \/ EnvRepaired /\ UNCHANGED cfgRest

\* the stock_agents document of a name
AgentDoc(agent_name) == IF agent_name \in DocIds THEN agentDocs[agent_name] ELSE NoDoc

\* C5: after the configuration was loaded from the store, get_model (and
\* lite_llm_model on top of it) returns 'gemini-2.5-flash' for a name with no
\* stock_agents document, and the llm_model value of the document for a name
\* that has one.
C5_GetModelFollowsStore ==
    (/\ cfgCall.op \in {"get_model", "lite_llm_model"}
     /\ cfgCall.name \in QueryNames
     /\ cfgHist.writes = 0
     /\ cfgHist.lastLoad = "ok")
        => /\ ~AgentDoc(cfgCall.name).exists => cfgCall.ret = "gemini-2.5-flash"
           /\ (AgentDoc(cfgCall.name).exists /\ AgentDoc(cfgCall.name).hasField)
                 => cfgCall.ret = AgentDoc(cfgCall.name).value

\* C11: when reload_configs has returned while the credentials and the store
\* are available, get_model answers every agent name from the documents the
\* store holds at that moment: the llm_model of a document that exists (also
\* one written or replaced since the first load), the default for a name
\* whose document is absent or was deleted; whatever happened before the
\* reload, a first load without credentials or store included.
C11_ReloadFollowsStore ==
    (/\ cfgCall.op = "reload_configs"
     /\ fsEnv = "ok"
     /\ cfgHist.lastLoad # "stream_failed")
        => \A name \in QueryNames \ {SHARED_INSTRUCTION_DOC_ID} :
              get_model(cfgCache, name) =
                  IF AgentDoc(name).exists /\ AgentDoc(name).hasField
                  THEN AgentDoc(name).value ELSE DEFAULT_MODEL

\* C16: an agent built by its factory after the configuration was loaded from
\* the store has the model the store maps its own name to, for every agent
\* name that has a mapping (senior_quantitative_advisor_agent included).
C16_AgentModelFollowsStore ==
    (/\ cfgCall.op = "create_agent"
     /\ cfgHist.lastLoad = "ok"
     /\ cfgHist.writes = 0
     /\ AgentDoc(cfgCall.name).exists
     /\ AgentDoc(cfgCall.name).hasField)
        => cfgCall.ret = AgentDoc(cfgCall.name).value

\* C9: after a load that failed in any way (no credentials, no client, an
\* exception while the documents stream), every get_model returns the default
\* model, whatever the name.
C9_FailedLoadGivesDefault ==
    (/\ cfgCall.op \in {"get_model", "lite_llm_model"}
     /\ cfgHist.lastLoad \in {"no_client", "stream_failed"})
        => cfgCall.ret = DEFAULT_MODEL

\* C10: as long as reload_configs was not called, only the first call of
\* load_configs / get_model / get_shared_instruction / get_all_configs can
\* have queried the store, and the Firebase app was initialised at most once.
C10_StoreQueriedOnce ==
    cfgHist.reloads = 0
        => /\ cfgHist.queriedAt \subseteq {1}
           /\ cfgHist.apps <= 1

\* a second call answered from memory after a first load that failed mid-stream
C10_Witness ==
    /\ cfgHist.reloads = 0
    /\ cfgHist.calls >= 2
    /\ cfgHist.lastLoad = "stream_failed"
    /\ cfgHist.queriedAt = {1}
    /\ cfgCall.op = "get_model"

(***************************************************************************)
(* PART 5.  Instruction builders                                           *)
(***************************************************************************)

\* The builders: the pm_instructions key each reads, whether that instruction
\* heads the text as a section (only when non-empty) or is inserted in place,
\* and whether the text holds the shared instruction and the timestamp.
InstrBuilders ==
    [ get_balance_sheet_instruction |->
        [pmKey |-> "financial_team_instruction", section |-> TRUE, shared |-> TRUE, stamp |-> FALSE],
      get_income_statement_instruction |->
        [pmKey |-> "financial_team_instruction", section |-> TRUE, shared |-> TRUE, stamp |-> TRUE],
      get_cash_flow_instruction |->
        [pmKey |-> "financial_team_instruction", section |-> TRUE, shared |-> TRUE, stamp |-> FALSE],
      get_basic_financial_instruction |->
        [pmKey |-> "financial_team_instruction", section |-> TRUE, shared |-> TRUE, stamp |-> TRUE],
      get_stock_researcher_instruction |->
        [pmKey |-> "stock_researcher_instruction", section |-> TRUE, shared |-> TRUE, stamp |-> TRUE],
      get_technical_analyst_instruction |->
        [pmKey |-> "technical_analyst_instruction", section |-> TRUE, shared |-> TRUE, stamp |-> FALSE],
      get_intrinsic_value_instruction |->
        [pmKey |-> "quantitative_team_instruction", section |-> TRUE, shared |-> TRUE, stamp |-> TRUE],
      get_macro_economy_analyst_instruction |->
        [pmKey |-> "macro_economy_instruction", section |-> TRUE, shared |-> FALSE, stamp |-> TRUE],
      get_web_researcher_instruction |->
        [pmKey |-> "stock_researcher_instruction", section |-> FALSE, shared |-> TRUE, stamp |-> TRUE],
      get_analyst_opinion_analyst_instruction |->
        [pmKey |-> "stock_researcher_instruction", section |-> FALSE, shared |-> TRUE, stamp |-> TRUE] ]

PmInstructionKeys ==
    { "financial_team_instruction", "quantitative_team_instruction",
      "stock_researcher_instruction", "technical_analyst_instruction",
      "macro_economy_instruction" }

\* pm_instructions as parse_pm_json_output leaves it: a mapping, here with
\* none, one or all of the keys the builders read (a key may hold "")
PmInstructionDicts ==
    { << >> } \cup { [k \in {key} |-> v] : key \in PmInstructionKeys, v \in {"", "do this"} }
        \cup { [k \in PmInstructionKeys |-> "do this"] }

\* Session states: each of the three keys present or missing.
InstrStates ==
    { [k \in keys |-> CASE k = "pm_instructions" -> pm
                        [] k = "shared_instruction" -> sh
                        [] k = "timestamp" -> "2025-01-01T09:00:00"] :
        keys \in SUBSET {"pm_instructions", "shared_instruction", "timestamp"},
        pm \in PmInstructionDicts, sh \in {"", "shared text"} }

\* d[key]: KeyError when the key is missing
Lookup_Subscript(d, key, default) ==
    IF key \in DOMAIN d THEN [raised |-> FALSE, v |-> d[key]] ELSE [raised |-> TRUE]

\* d.get(key, default)
Lookup(d, key, default) ==
    IF key \in DOMAIN d THEN [raised |-> FALSE, v |-> d[key]]
    ELSE [raised |-> FALSE, v |-> default]

\* the fixed task description of a builder's text
StaticDescription(builder) == "[static text of " \o builder \o "]"

\* A builder on a session state.  The text is the sequence of its pieces.
BuildInstruction(builder, state) ==
    LET B  == InstrBuilders[builder]
        pm == Lookup(state, "pm_instructions", << >>)
        ti == IF pm.raised THEN pm ELSE Lookup(pm.v, B.pmKey, "")
        sh == IF B.shared THEN Lookup(state, "shared_instruction", "") ELSE [raised |-> FALSE, v |-> ""]
        ts == IF B.stamp THEN Lookup(state, "timestamp", "") ELSE [raised |-> FALSE, v |-> ""]
    IN  IF pm.raised \/ ti.raised \/ sh.raised \/ ts.raised
        THEN [raised |-> TRUE]
        ELSE [raised |-> FALSE,
              text |->
                 (IF B.section /\ ti.v # "" THEN << "[team instruction section] ", ti.v >> ELSE << >>)
                 \o (IF B.shared THEN << "shared: ", sh.v >> ELSE << >>)
                 \o << StaticDescription(builder) >>
                 \o (IF ~B.section THEN << "director's instruction: ", ti.v >> ELSE << >>)
                 \o (IF B.stamp THEN << "date: ", ts.v >> ELSE << >>)]

NoInstrCall == [builder |-> "none"]

InstrIdle ==
    /\ instrState = << >>
    /\ instrCall = NoInstrCall

InstrInit ==
    /\ instrState \in InstrStates
    /\ instrCall = NoInstrCall

\* the framework asks a builder for the agent's instruction
InstrBuild ==
    \E builder \in DOMAIN InstrBuilders :
        /\ instrCall' = [builder |-> builder, ret |-> BuildInstruction(builder, instrState)]
        /\ UNCHANGED instrState

instrRest == <<toolVars, storageVars, pmVars, cfgVars, pipeVars, genVars, apiVars, legVars, trVars, logVars, queryVars>>

InstrNext == InstrBuild /\ UNCHANGED instrRest

\* the concatenation of the pieces of a text
RECURSIVE Concat(_)
Concat(pieces) == IF pieces = << >> THEN "" ELSE Head(pieces) \o Concat(Tail(pieces))

\* C6: each of the ten instruction builders, on a session state with any of
\* pm_instructions, shared_instruction and timestamp missing, returns
\* without raising a non-empty string that contains its static description.
C6_BuildersTolerateMissingKeys ==
    instrCall.builder # "none"
        => /\ ~instrCall.ret.raised
           /\ Concat(instrCall.ret.text) # ""
           /\ \E i \in 1..Len(instrCall.ret.text) :
                 instrCall.ret.text[i] = StaticDescription(instrCall.builder)

\* a builder that reads all three keys, called on the empty state
C6_Witness ==
    /\ instrState = << >>
    /\ instrCall.builder = "get_web_researcher_instruction"
    /\ ~instrCall.ret.raised

(***************************************************************************)
(* PART 6.  The main pipeline of create_stock_analysis_company             *)
(***************************************************************************)

\* sub_agents of the SequentialAgent and ParallelAgent nodes, in order
SubAgents ==
    [ root_agent |->
        << "project_manager_agent", "stock_analysis_department", "hedge_fund_manager_agent" >>,
      stock_analysis_department |->
        << "stock_researcher_agent", "financial_team_agents", "technical_analyst_agent",
           "quantitative_analysis_team", "macro_economy_analyst_agent" >>,
      financial_team_agents |-> << "parallel_financial_agent", "senior_financial_advisor_agent" >>,
      parallel_financial_agent |->
        << "balance_sheet_agent", "income_statement_agent", "cash_flow_statement_agent",
           "basic_financial_analyst_agent" >>,
      quantitative_analysis_team |->
        << "quantitative_analysis_agents", "senior_quantitative_advisor_agent" >>,
      quantitative_analysis_agents |-> << "intrinsic_value_analyst_agent", "growth_analyst_agent" >> ]

\* every node but one made sequential is a tree in which an advisor may start early
AgentKind_OnlyRootSequential(node) ==
    IF node = "root_agent" THEN "SequentialAgent" ELSE "ParallelAgent"

\* SequentialAgent or ParallelAgent
AgentKind(node) ==
    IF node \in {"root_agent", "financial_team_agents", "quantitative_analysis_team"}
    THEN "SequentialAgent" ELSE "ParallelAgent"

\* output_key of each LLM agent (growth_analyst_agent: its agent.py is the one
\* under stock-analysis-agent/)
OutputKey ==
    [ project_manager_agent |-> "pm_instructions",
      stock_researcher_agent |-> "stock_researcher_result",
      balance_sheet_agent |-> "balance_sheet_result",
      income_statement_agent |-> "income_statement_result",
      cash_flow_statement_agent |-> "cash_flow_statement_result",
      basic_financial_analyst_agent |-> "basic_financial_analyst_result",
      senior_financial_advisor_agent |-> "senior_financial_advisor_result",
      technical_analyst_agent |-> "technical_analyst_result",
      intrinsic_value_analyst_agent |-> "intrinsic_value_result",
      growth_analyst_agent |-> "growth_analyst_result",
      senior_quantitative_advisor_agent |-> "senior_quantitative_advisor_result",
      macro_economy_analyst_agent |-> "economic_indicators_result",
      hedge_fund_manager_agent |-> "final_investment_result" ]

LlmAgents == DOMAIN OutputKey

\* the keys set_session writes
SetSessionKeys ==
    { "unique_id", "timestamp", "agent_results", "user_id", "user_query", "shared_instruction" }

\* the {key} placeholders of the three instruction templates that read results
TemplateReads ==
    [ senior_financial_advisor_agent |->
        { "shared_instruction", "income_statement_result", "balance_sheet_result",
          "cash_flow_statement_result", "basic_financial_analyst_result", "timestamp" },
      senior_quantitative_advisor_agent |-> { "growth_analyst_result", "intrinsic_value_result" },
      hedge_fund_manager_agent |->
        { "stock_researcher_result", "senior_financial_advisor_result", "technical_analyst_result",
          "senior_quantitative_advisor_result", "economic_indicators_result" } ]

\* the node a node is a sub-agent of
ParentOf(node) == CHOOSE p \in DOMAIN SubAgents : \E i \in 1..Len(SubAgents[p]) : SubAgents[p][i] = node

IndexIn(node, p) == CHOOSE i \in 1..Len(SubAgents[p]) : SubAgents[p][i] = node

\* a node has run to its end: an LLM agent finished, a combinator's sub-agents all did
RECURSIVE Done(_, _)
Done(status, node) ==
    IF node \in LlmAgents THEN status[node] = "done"
    ELSE \A i \in 1..Len(SubAgents[node]) : Done(status, SubAgents[node][i])

\* the combinators have reached the node: the root runs, and under every
\* SequentialAgent above it the earlier sub-agents have run to their end
RECURSIVE Reached(_, _)
Reached(status, node) ==
    IF node = "root_agent" THEN status["root_agent"] = "running"
    ELSE LET p == ParentOf(node)
         IN  /\ Reached(status, p)
             /\ AgentKind(p) = "SequentialAgent"
                   => \A i \in 1..(IndexIn(node, p) - 1) : Done(status, SubAgents[p][i])

PipeIdle ==
    /\ pipeStatus = [n \in LlmAgents \cup {"root_agent"} |-> "idle"]
    /\ sessKeys = {}
    /\ pmInstructions = "absent"

\* before_agent_callback of the root
SetSession ==
    /\ pipeStatus["root_agent"] = "idle"
    /\ pipeStatus' = [pipeStatus EXCEPT !["root_agent"] = "running"]
    /\ sessKeys' = sessKeys \cup SetSessionKeys
    /\ UNCHANGED pmInstructions

AgentStart ==
    \E a \in LlmAgents :
        /\ pipeStatus[a] = "idle"
        /\ Reached(pipeStatus, a)
        /\ \A b \in LlmAgents : pipeStatus[b] # "failed"
        /\ pipeStatus' = [pipeStatus EXCEPT ![a] = "running"]
        /\ UNCHANGED <<sessKeys, pmInstructions>>

\* an LLM agent's final response is stored under its output_key
AgentFinish ==
    \E a \in LlmAgents \ {"project_manager_agent"} :
        /\ pipeStatus[a] = "running"
        /\ pipeStatus' = [pipeStatus EXCEPT ![a] = "done"]
        /\ sessKeys' = sessKeys \cup {OutputKey[a]}
        /\ UNCHANGED pmInstructions

PmAnswers ==
    /\ pipeStatus["project_manager_agent"] = "running"
    /\ pipeStatus' = [pipeStatus EXCEPT !["project_manager_agent"] = "answered"]
    /\ sessKeys' = sessKeys \cup {OutputKey["project_manager_agent"]}
    /\ pmInstructions' = "raw"

\* after_agent_callback = parse_pm_json_output
PmParsed ==
    /\ pipeStatus["project_manager_agent"] = "answered"
    /\ pipeStatus' = [pipeStatus EXCEPT !["project_manager_agent"] = "done"]
    /\ pmInstructions' = "parsed"
    /\ UNCHANGED sessKeys

\* an agent's run raises: the run of the pipeline ends with it
AgentFails ==
    \E a \in LlmAgents :
        /\ pipeStatus[a] \in {"running", "answered"}
        /\ pipeStatus' = [pipeStatus EXCEPT ![a] = "failed"]
        /\ UNCHANGED <<sessKeys, pmInstructions>>

pipeRest == <<toolVars, storageVars, pmVars, cfgVars, instrVars, genVars, apiVars, legVars, trVars, logVars, queryVars>>

PipeNext ==
    \/ SetSession /\ UNCHANGED pipeRest
    \/ AgentStart /\ UNCHANGED pipeRest
    \/ AgentFinish /\ UNCHANGED pipeRest
    \/ PmAnswers /\ UNCHANGED pipeRest
    \/ PmParsed /\ UNCHANGED pipeRest
    \/ AgentFails /\ UNCHANGED pipeRest

MaxEvents == 2
MaxTokens == 2

\* A wrapped generator yields the events 1..n and then ends: normally, with
\* GeneratorExit, or with an error.
GenEnds == { "StopAsyncIteration", "GeneratorExit", "RuntimeError" }

\* Context tokens by what opentelemetry's detach does with them.
TokenKinds == { "detaches", "different_context", "other_value_error", "other_error" }

\* TracingSafeAsyncGenerator(async_gen) around a generator not yet started
NewWrapper(n, end) ==
    [ closed |-> FALSE, tokens |-> << >>,
      n |-> n, end |-> end, pos |-> 0, gen |-> "open", acloses |-> 0, asked |-> 0 ]

\* TracingErrorHandler.safe_context_detach: what it raises
safe_context_detach(token) ==
    CASE token = "detaches"          -> "none"          \* returns True
      [] token = "different_context" -> "none"          \* returns False
      [] token = "other_value_error" -> "ValueError"    \* re-raised
      [] token = "other_error"       -> "RuntimeError"  \* re-raised

\* the loop over reversed(self._context_tokens): the exception that ends it
DetachTokens(tokens) ==
    LET bad == { i \in 1..Len(tokens) : safe_context_detach(tokens[i]) # "none" }
    IN  IF bad = {} THEN "none"
        ELSE safe_context_detach(tokens[CHOOSE i \in bad : \A j \in bad : j <= i])

\* _safe_aclose without its "if self._closed: return"
safe_aclose_NoGuard(W) ==
    LET r == DetachTokens(W.tokens)
    IN  IF r # "none"
        THEN [w |-> [W EXCEPT !.closed = TRUE], raised |-> r]
        ELSE [w |-> [W EXCEPT !.closed = TRUE, !.tokens = << >>, !.gen = "closed",
                              !.acloses = @ + 1],
              raised |-> "none"]

\* _safe_aclose.  An Exception out of aclose() is logged and dropped.
safe_aclose(W) ==
    IF W.closed THEN [w |-> W, raised |-> "none"]
    ELSE LET r == DetachTokens(W.tokens)
         IN  IF r # "none"
             THEN [w |-> [W EXCEPT !.closed = TRUE], raised |-> r]
             ELSE [w |-> [W EXCEPT !.closed = TRUE, !.tokens = << >>, !.gen = "closed",
                                   !.acloses = @ + 1],
                   raised |-> "none"]

\* self._async_gen.__anext__(): the next event, or how the generator ends
AskWrapped(W) ==
    IF W.gen = "open" /\ W.pos < W.n
    THEN [w |-> [W EXCEPT !.pos = @ + 1, !.asked = @ + 1], outcome |-> "event", event |-> W.pos + 1]
    ELSE IF W.gen = "open"
    THEN [w |-> [W EXCEPT !.gen = "finished", !.asked = @ + 1], outcome |-> W.end, event |-> 0]
    ELSE [w |-> [W EXCEPT !.asked = @ + 1], outcome |-> "StopAsyncIteration", event |-> 0]

\* TracingSafeAsyncGenerator.__anext__
anext(W) ==
    IF W.closed
    THEN [w |-> W, raised |-> "StopAsyncIteration", event |-> 0, wrapped |-> "not asked"]
    ELSE LET a == AskWrapped(W)
             c == safe_aclose(a.w)
         IN  IF a.outcome = "event"
             THEN [w |-> a.w, raised |-> "none", event |-> a.event, wrapped |-> "event"]
             ELSE [w |-> c.w, event |-> 0, wrapped |-> a.outcome,
                   raised |-> IF c.raised # "none" THEN c.raised
                              ELSE IF a.outcome = "GeneratorExit" THEN "StopAsyncIteration"
                              ELSE a.outcome]

\* max_events: None or an integer
MaxEventsArgs == { [none |-> TRUE, k |-> 0] } \cup { [none |-> FALSE, k |-> k] : k \in 0..MaxEvents }

\* "if max_events and event_count >= max_events"
Break(max_events, event_count) ==
    ~max_events.none /\ max_events.k # 0 /\ event_count >= max_events.k

\* the async for of consume_async_generator_safely
RECURSIVE ConsumeLoop(_, _, _)
ConsumeLoop(W, events, max_events) ==
    LET r == anext(W)
    IN  IF r.raised = "StopAsyncIteration" THEN [w |-> r.w, events |-> events, raised |-> "none"]
        ELSE IF r.raised # "none" THEN [w |-> r.w, events |-> events, raised |-> r.raised]
        ELSE IF Break(max_events, Len(events) + 1)
             THEN [w |-> r.w, events |-> Append(events, r.event), raised |-> "none"]
             ELSE ConsumeLoop(r.w, Append(events, r.event), max_events)

\* consume_async_generator_safely on a wrapper it has just made
consume_async_generator_safely(W, max_events) ==
    LET l == ConsumeLoop(W, << >>, max_events)
        c == safe_aclose(l.w)
    IN  [w |-> c.w, events |-> l.events,
         raised |-> IF c.raised # "none" THEN c.raised ELSE l.raised]

\* the async for of sse_generator; the client closes the stream after taking
\* "taken" lines (GeneratorExit at the yield), or reads to the end
RECURSIVE SseLoop(_, _, _)
SseLoop(W, lines, taken) ==
    IF Len(lines) = taken THEN [w |-> W, lines |-> lines, raised |-> "none"]
    ELSE LET r == anext(W)
         IN  IF r.raised = "StopAsyncIteration" THEN [w |-> r.w, lines |-> lines, raised |-> "none"]
             ELSE IF r.raised # "none"
                  THEN [w |-> r.w, lines |-> Append(lines, "data: error"), raised |-> "none"]
                  ELSE SseLoop(r.w, Append(lines, "data: event"), taken)

\* create_sse_event_generator on a wrapper it has just made, read by a client
create_sse_event_generator(W, taken) ==
    LET l == SseLoop(W, << >>, taken)
        c == safe_aclose(l.w)
    IN  [w |-> c.w, lines |-> l.lines,
         raised |-> IF c.raised # "none" THEN c.raised ELSE l.raised]

NoGenCall == [op |-> "none"]

GenIdle ==
    /\ wrap = NewWrapper(0, "StopAsyncIteration")
    /\ genCall = NoGenCall

GenInit ==
    /\ wrap \in { NewWrapper(n, end) : n \in 0..MaxEvents, end \in GenEnds }
    /\ genCall = NoGenCall

\* track_context_token
TrackToken ==
    \E token \in TokenKinds \cup {"None"} :
        /\ Len(wrap.tokens) < MaxTokens
        /\ wrap' = IF token = "None" THEN wrap ELSE [wrap EXCEPT !.tokens = Append(@, token)]
        /\ genCall' = [op |-> "track_context_token"]

Anext ==
    LET r == anext(wrap)
    IN  /\ wrap.asked <= MaxEvents
        /\ wrap' = r.w
        /\ genCall' = [op |-> "anext", raised |-> r.raised, event |-> r.event, wrapped |-> r.wrapped]

\* __aexit__, and the finally of safe_async_generator_context
Aexit ==
    LET r == safe_aclose(wrap)
    IN  /\ wrap' = r.w
        /\ genCall' = [op |-> "aexit", raised |-> r.raised]

\* the wrapper is the one the function makes around the generator it is given
Fresh(W) == ~W.closed /\ W.tokens = << >> /\ W.asked = 0

Consume ==
    \E max_events \in MaxEventsArgs :
        LET r == consume_async_generator_safely(wrap, max_events)
        IN  /\ Fresh(wrap)
            /\ wrap' = r.w
            /\ genCall' = [op |-> "consume", max_events |-> max_events,
                           events |-> r.events, raised |-> r.raised]

Sse ==
    \E taken \in 0..(MaxEvents + 2) :
        LET r == create_sse_event_generator(wrap, taken)
        IN  /\ Fresh(wrap)
            /\ wrap' = r.w
            /\ genCall' = [op |-> "sse", taken |-> taken, lines |-> r.lines, raised |-> r.raised]

genRest == <<toolVars, storageVars, pmVars, cfgVars, instrVars, pipeVars, apiVars, legVars, trVars, logVars, queryVars>>

GenNext ==
    \/ TrackToken /\ UNCHANGED genRest
    \/ Anext /\ UNCHANGED genRest
    \/ Aexit /\ UNCHANGED genRest
    \/ Consume /\ UNCHANGED genRest
    \/ Sse /\ UNCHANGED genRest

\* C8: when the wrapped generator raises GeneratorExit, __anext__ closes it
\* and raises StopAsyncIteration; consume_async_generator_safely returns the
\* events received so far, create_sse_event_generator ends its stream, and
\* no exception reaches their caller.
C8_GeneratorExitEndsStream ==
    /\ (genCall.op = "anext" /\ genCall.wrapped = "GeneratorExit")
          => (genCall.raised = "StopAsyncIteration" /\ wrap.acloses = 1)
    /\ (genCall.op = "consume" /\ wrap.end = "GeneratorExit")
          => /\ genCall.raised = "none"
             /\ genCall.events = [i \in 1..Len(genCall.events) |-> i]
             /\ wrap.acloses = 1
    /\ (genCall.op = "sse" /\ wrap.end = "GeneratorExit")
          => (genCall.raised = "none" /\ wrap.acloses = 1)

\* C23: whenever the wrapper is closed, aclose() has been called on the
\* wrapped generator, also when detaching a tracked context token raised.
C23_ClosedMeansAclosed ==
    wrap.closed => (wrap.acloses = 1 /\ wrap.gen = "closed")

\* C18: consume_async_generator_safely returns every event of the generator in
\* order when max_events is None, exactly the first min(k, n) of its n events
\* when max_events is an integer k >= 0, and has closed the wrapped generator
\* when it returns.
C18_ConsumeReturnsFirstEvents ==
    (genCall.op = "consume" /\ genCall.raised = "none")
        => /\ genCall.events =
                 [ i \in 1..(IF genCall.max_events.none THEN wrap.n
                             ELSE Min({genCall.max_events.k, wrap.n})) |-> i ]
           /\ wrap.gen = "closed"

\* C17: once the wrapper is closed it stays closed, an __anext__ on a closed
\* wrapper raises StopAsyncIteration without asking the wrapped generator, and
\* the wrapped generator's aclose() is called at most once, whatever sequence
\* of __anext__, __aexit__ and _safe_aclose calls is made.
C17_ClosedStaysClosed ==
    /\ [](wrap.acloses <= 1)
    /\ [][ /\ wrap.closed => wrap'.closed
           /\ (wrap.closed /\ genCall'.op = "anext")
                 => /\ genCall'.raised = "StopAsyncIteration"
                    /\ genCall'.wrapped = "not asked"
                    /\ wrap'.asked = wrap.asked ]_vars

\* an __anext__ on a wrapper that exhaustion had closed, and an __aexit__ after it
C17_Witness ==
    /\ wrap.closed
    /\ wrap.acloses = 1
    /\ wrap.asked >= 1
    /\ genCall.op = "anext"
    /\ genCall.wrapped = "not asked"

(***************************************************************************)
(* PART 8.  The /save, /load and /list routes of the result storage        *)
(***************************************************************************)

\* request.get(name) of a body that lacks the field
None == <<"None">>

\* The bodies sent to /load: each field missing, empty or filled in.  /list
\* and /save look at the fields they name and at nothing else.
Requests ==
    [ user_id : {None, << >>, <<"u", ".", "1">>},
      session_id : {None, << >>, <<"s">>},
      stock_symbol : {None, << >>, <<"a">>},
      agent_name : {None, << >>} \cup AgentNames ]

\* not x, for the value of a field
Falsy(x) == x \in {None, << >>}

\* raise HTTPException(status_code=..., detail=...) as the client sees it
HTTPException(status_code, detail) == [status |-> status_code, detail |-> detail]

\* str(e) of the HTTPException(400, "Missing required parameters") caught by
\* the route's own except clause: Starlette's "<status>: <detail>", the empty
\* string in releases whose HTTPException has no __str__.
StrOfMissing == { "400: Missing required parameters", "" }

KeyOf(request) ==
    <<request.user_id, request.session_id, request.stock_symbol, request.agent_name>>

\* get_available_agents: the stems of the *.json files of the session folder
get_available_agents(user_id, session_id, stock_symbol) ==
    LET folder == FolderPath(user_id, session_id, stock_symbol)
        json == <<".", "j", "s", "o", "n">>
    IN { SubSeq(path[4], 1, Len(path[4]) - 5) :
           path \in { q \in DOMAIN files :
                        /\ files[q].state # "dir"
                        /\ Len(q) = 4
                        /\ SubSeq(q, 1, 3) = folder
                        /\ Len(q[4]) >= 5
                        /\ SubSeq(q[4], Len(q[4]) - 4, Len(q[4])) = json } }

ApiIdle == apiCall = [route |-> "none"]

\* POST /save (pydantic has validated the body: four strings and content;
\* the bodies sent here have the four filled in)
RouteSave ==
    \E request \in Requests, content \in Contents, io \in {"ok", "mkdir_fails", "write_fails"} :
        /\ ~Falsy(request.user_id) /\ ~Falsy(request.session_id)
        /\ ~Falsy(request.stock_symbol) /\ ~Falsy(request.agent_name)
        /\ SaveAgentResult(KeyOf(request), content, io)
        /\ apiCall' = [ route |-> "save", request |-> request, read |-> FALSE,
                        answer |-> IF io = "ok" THEN [status |-> 200, success |-> TRUE]
                                   ELSE HTTPException(500, "500: Failed to save") ]

\* POST /load
RouteLoad ==
    \E request \in Requests, io \in {"ok", "read_fails"} :
        /\ IF Falsy(request.user_id) \/ Falsy(request.session_id)
              \/ Falsy(request.stock_symbol) \/ Falsy(request.agent_name)
           THEN \E text \in StrOfMissing :
                  apiCall' = [ route |-> "load", request |-> request, read |-> FALSE,
                               answer |-> HTTPException(500, text) ]
           ELSE LET result == LoadResult(KeyOf(request), io)
                IN apiCall' = [ route |-> "load", request |-> request, read |-> TRUE,
                                answer |-> [status |-> 200, success |-> result.found,
                                            result |-> result] ]
        /\ UNCHANGED storageVars

\* POST /list
RouteList ==
    \E request \in Requests :
        /\ request.agent_name = None
        /\ IF Falsy(request.user_id) \/ Falsy(request.session_id)
              \/ Falsy(request.stock_symbol)
           THEN \E text \in StrOfMissing :
                  apiCall' = [ route |-> "list", request |-> request, read |-> FALSE,
                               answer |-> HTTPException(500, text) ]
           ELSE LET agents == get_available_agents(request.user_id, request.session_id,
                                                   request.stock_symbol)
                    loaded == { LoadResult(<<request.user_id, request.session_id,
                                             request.stock_symbol, a>>, "ok") : a \in agents }
                IN apiCall' = [ route |-> "list", request |-> request, read |-> TRUE,
                                answer |-> [status |-> 200, success |-> TRUE,
                                            agents |-> agents,
                                            results |-> { r \in loaded : r.found }] ]
        /\ UNCHANGED storageVars

apiRest == <<toolVars, pmVars, cfgVars, instrVars, pipeVars, genVars, legVars, trVars, logVars, queryVars>>

ApiNext ==
    \/ RouteSave /\ UNCHANGED apiRest
    \/ RouteLoad /\ UNCHANGED apiRest
    \/ RouteList /\ UNCHANGED apiRest

\* C13: /load answers a body in which user_id, session_id, stock_symbol or
\* agent_name is missing or empty, and /list one in which user_id, session_id
\* or stock_symbol is, with status 400 and detail "Missing required
\* parameters", and does not read the storage.
C13_MissingParametersGive400 ==
    (/\ apiCall.route \in {"load", "list"}
     /\ \/ Falsy(apiCall.request.user_id)
        \/ Falsy(apiCall.request.session_id)
        \/ Falsy(apiCall.request.stock_symbol)
        \/ apiCall.route = "load" /\ Falsy(apiCall.request.agent_name))
        => /\ apiCall.answer = HTTPException(400, "Missing required parameters")
           /\ ~apiCall.read

(***************************************************************************)
(* PART 9.  The pipeline of stock-analysis-agent/agent.py                  *)
(***************************************************************************)

\* sub_agents of the SequentialAgent and ParallelAgent nodes, in order; an LLM
\* agent goes by the name of the module variable that holds it
LegacySubAgents ==
    [ root_agent |-> << "stock_analysis_department", "hadge_fund_manager_agent" >>,
      stock_analysis_department |->
        << "stock_researcher_agent", "financial_team_agents", "technical_analyst_agent",
           "quantitative_analysis_team" >>,
      financial_team_agents |-> << "parallel_financial_agent", "senior_financial_advisor_agent" >>,
      parallel_financial_agent |->
        << "balance_sheet_agent", "income_statement_agent", "cash_flow_statement_agent",
           "basic_financial_analyst_agent" >>,
      quantitative_analysis_team |->
        << "quantitative_analysis_agents", "senior_quantitative_advisor_agent" >>,
      quantitative_analysis_agents |-> << "instrinsic_value_agent", "growth_analyst_agent" >> ]

\* output_key of each LLM agent
LegacyOutputKey ==
    [ stock_researcher_agent |-> "stock_researcher_result",
      balance_sheet_agent |-> "balance_sheet_result",
      income_statement_agent |-> "income_statement_result",
      cash_flow_statement_agent |-> "cash_flow_statement_result",
      basic_financial_analyst_agent |-> "basic_financial_analyst_result",
      senior_financial_advisor_agent |-> "senior_financial_advisor_result",
      technical_analyst_agent |-> "technical_analyst_result",
      instrinsic_value_agent |-> "intrinsic_value_result",
      growth_analyst_agent |-> "growth_analyst_result",
      senior_quantitative_advisor_agent |-> "senior_quantitative_advisor_result",
      hadge_fund_manager_agent |-> "final_investment_result" ]

\* the {key} placeholders of the instruction templates
LegacyTemplateReads ==
    [ instrinsic_value_agent |-> { "timestamp" },
      senior_financial_advisor_agent |->
        { "income_statement_result", "balance_sheet_result", "cash_flow_statement_result",
          "basic_financial_analyst_result" },
      senior_quantitative_advisor_agent |-> { "growth_analyst_result", "intrinsic_value_result" },
      hadge_fund_manager_agent |->
        { "stock_news_result", "senior_financial_advisor_result", "technical_analyst_result" } ]

\* a node has run to its end
RECURSIVE LegacyDone(_, _)
LegacyDone(status, node) ==
    IF node \in DOMAIN LegacyOutputKey THEN status[node] = "done"
    ELSE \A i \in 1..Len(LegacySubAgents[node]) : LegacyDone(status, LegacySubAgents[node][i])

\* the combinators have reached the node: the root runs, and under every
\* SequentialAgent above it the earlier sub-agents have run to their end
RECURSIVE LegacyReached(_, _)
LegacyReached(status, node) ==
    IF node = "root_agent" THEN status["root_agent"] = "running"
    ELSE LET p == CHOOSE q \in DOMAIN LegacySubAgents :
                      \E i \in 1..Len(LegacySubAgents[q]) : LegacySubAgents[q][i] = node
             at == CHOOSE i \in 1..Len(LegacySubAgents[p]) : LegacySubAgents[p][i] = node
         IN  /\ LegacyReached(status, p)
             /\ AgentKind(p) = "SequentialAgent"
                   => \A i \in 1..(at - 1) : LegacyDone(status, LegacySubAgents[p][i])

LegacyIdle ==
    /\ legStatus = [n \in DOMAIN LegacyOutputKey \cup {"root_agent"} |-> "idle"]
    /\ legKeys = {}

\* before_agent_callback=set_session
LegacySetSession ==
    /\ legStatus["root_agent"] = "idle"
    /\ legStatus' = [legStatus EXCEPT !["root_agent"] = "running"]
    /\ legKeys' = legKeys \cup {"unique_id", "timestamp"}

LegacyAgentStart ==
    \E a \in DOMAIN LegacyOutputKey :
        /\ legStatus[a] = "idle"
        /\ LegacyReached(legStatus, a)
        /\ \A b \in DOMAIN LegacyOutputKey : legStatus[b] # "failed"
        /\ legStatus' = [legStatus EXCEPT ![a] = "running"]
        /\ UNCHANGED legKeys

\* an LLM agent's final response is stored under its output_key
LegacyAgentFinish ==
    \E a \in DOMAIN LegacyOutputKey :
        /\ legStatus[a] = "running"
        /\ legStatus' = [legStatus EXCEPT ![a] = "done"]
        /\ legKeys' = legKeys \cup {LegacyOutputKey[a]}

\* an agent's run raises: the run of the pipeline ends with it
LegacyAgentFails ==
    \E a \in DOMAIN LegacyOutputKey :
        /\ legStatus[a] = "running"
        /\ legStatus' = [legStatus EXCEPT ![a] = "failed"]
        /\ UNCHANGED legKeys

legRest == <<toolVars, storageVars, pmVars, cfgVars, instrVars, pipeVars, genVars, apiVars, trVars, logVars, queryVars>>

LegacyNext ==
    \/ LegacySetSession /\ UNCHANGED legRest
    \/ LegacyAgentStart /\ UNCHANGED legRest
    \/ LegacyAgentFinish /\ UNCHANGED legRest
    \/ LegacyAgentFails /\ UNCHANGED legRest

\* C15: an agent of this pipeline that has started finds every key its
\* instruction template reads written by set_session or by an agent the tree
\* orders before it; the hedge fund manager finds stock_news_result,
\* senior_financial_advisor_result and technical_analyst_result.
C15_LegacyReadsAfterWrites ==
    \A a \in DOMAIN LegacyTemplateReads :
        legStatus[a] # "idle" => LegacyTemplateReads[a] \subseteq legKeys

(***************************************************************************)
(* PART 10.  Tracing configuration from the environment                    *)
(***************************************************************************)

\* a variable that is not in os.environ
Unset == "<unset>"

\* what the process is started with
StartVars ==
    [ FORCE_DISABLE_OTEL |-> {Unset, "true", "false"},
      OTEL_SDK_DISABLED |-> {Unset, "true", "false"},
      ENABLE_OTEL_TRACING |-> {Unset, "true", "false"},
      ADK_DEPLOYMENT_MODE |-> {Unset, "production"},
      GOOGLE_CLOUD_PROJECT |-> {Unset, "my-project"},
      PYTHON_ENV |-> {Unset, "development"} ]

\* the variables the two configurations write, of those followed here
SelectiveVars ==
    { "OTEL_SDK_DISABLED", "OTEL_TRACES_EXPORTER", "OTEL_PROPAGATORS", "OTEL_PYTHON_CONTEXT" }
AggressiveOnlyVars ==
    { "OTEL_DISABLE_TELEMETRY", "OTEL_TELEMETRY_SDK_DISABLED", "OTEL_TRACES_SAMPLER",
      "OTEL_EXPORTER_CONSOLE_ENDPOINT" }

EnvVars == DOMAIN StartVars \cup SelectiveVars \cup AggressiveOnlyVars \cup {"ADK_TRACING_MODE"}

\* os.environ after the assignments os.environ[k] = new[k], k in DOMAIN new
Setenv(env, new) == [ k \in EnvVars |-> IF k \in DOMAIN new THEN new[k] ELSE env[k] ]

\* TracingEnvironmentManager._detect_mode (CI is not set; the working
\* directory decides nothing: both remaining branches give "development")
detect_mode(env) ==
    IF env["ADK_DEPLOYMENT_MODE"] = "production" THEN "production"
    ELSE IF env["GOOGLE_CLOUD_PROJECT"] # Unset THEN "production"
    ELSE "development"

\* TracingEnvironmentManager.DEFAULTS
DEFAULTS ==
    [ development |->
        [ FORCE_DISABLE_OTEL |-> "true", OTEL_SDK_DISABLED |-> "true",
          OTEL_TRACES_EXPORTER |-> "none", OTEL_PROPAGATORS |-> "none",
          ADK_TRACING_MODE |-> "aggressive" ],
      production |->
        [ OTEL_SDK_DISABLED |-> "false", OTEL_TRACES_EXPORTER |-> "otlp",
          OTEL_PROPAGATORS |-> "tracecontext,baggage", ADK_TRACING_MODE |-> "production" ] ]

\* apply_defaults_for_mode: "if key not in os.environ"
apply_defaults_for_mode(env, mode) ==
    [ k \in EnvVars |->
        IF k \in DOMAIN DEFAULTS[mode] /\ env[k] = Unset THEN DEFAULTS[mode][k] ELSE env[k] ]

\* TracingEnvironmentManager.is_tracing_enabled
is_tracing_enabled(env, mode) ==
    IF env["FORCE_DISABLE_OTEL"] = "true" THEN FALSE
    ELSE IF env["OTEL_SDK_DISABLED"] = "true" THEN FALSE
    ELSE IF env["ENABLE_OTEL_TRACING"] = "true" THEN TRUE
    ELSE mode = "production"

\* TracingConfig(disable_tracing=True, development_mode=False).apply_configuration():
\* _disable_all_tracing, then _configure_context_propagation
disable_tracing_selective(env) ==
    Setenv(env, [ OTEL_SDK_DISABLED |-> "true", OTEL_TRACES_EXPORTER |-> "none",
                  OTEL_PYTHON_CONTEXT |-> "none", OTEL_PROPAGATORS |-> "none" ])

\* disable_tracing_aggressively: its own assignments, _disable_all_tracing,
\* _apply_aggressive_disable, _configure_context_propagation
disable_tracing_aggressively(env) ==
    Setenv(disable_tracing_selective(env),
           [ OTEL_TRACES_SAMPLER |-> "none", OTEL_EXPORTER_CONSOLE_ENDPOINT |-> "none",
             OTEL_DISABLE_TELEMETRY |-> "true", OTEL_TELEMETRY_SDK_DISABLED |-> "true" ])

\* auto_configure_tracing: it returns after its first statement; the tests of
\* the flags and of the environment below that return are never reached
auto_configure_tracing(env) == disable_tracing_aggressively(env)

TrIdle ==
    /\ osEnviron = [ k \in EnvVars |-> Unset ]
    /\ trMode = "development"
    /\ trCall = [op |-> "none"]

\* the process starts; tracing_env = TracingEnvironmentManager()
TrInit ==
    /\ osEnviron \in { Setenv([ k \in EnvVars |-> Unset ], start) :
                          start \in [ DOMAIN StartVars -> UNION { StartVars[k] : k \in DOMAIN StartVars } ] }
    /\ \A k \in DOMAIN StartVars : osEnviron[k] \in StartVars[k]
    /\ trMode = detect_mode(osEnviron)
    /\ trCall = [op |-> "none"]

IsTracingEnabled ==
    /\ trCall' = [ op |-> "is_tracing_enabled", before |-> osEnviron,
                   ret |-> is_tracing_enabled(osEnviron, trMode) ]
    /\ UNCHANGED <<osEnviron, trMode>>

AutoConfigureTracing ==
    /\ osEnviron' = auto_configure_tracing(osEnviron)
    /\ trCall' = [op |-> "auto_configure_tracing", before |-> osEnviron, ret |-> "None"]
    /\ UNCHANGED trMode

\* setup_tracing_environment
SetupTracingEnvironment ==
    /\ osEnviron' = apply_defaults_for_mode(osEnviron, trMode)
    /\ trCall' = [op |-> "setup_tracing_environment", before |-> osEnviron, ret |-> "None"]
    /\ UNCHANGED trMode

trRest == <<toolVars, storageVars, pmVars, cfgVars, instrVars, pipeVars, genVars, apiVars, legVars, logVars, queryVars>>

TrNext ==
    \/ IsTracingEnabled /\ UNCHANGED trRest
    \/ AutoConfigureTracing /\ UNCHANGED trRest
    \/ SetupTracingEnvironment /\ UNCHANGED trRest

\* C19: is_tracing_enabled() returns True whenever ENABLE_OTEL_TRACING is
\* "true", also when FORCE_DISABLE_OTEL or OTEL_SDK_DISABLED is "true".
C19_EnableOverridesDisable ==
    (trCall.op = "is_tracing_enabled" /\ osEnviron["ENABLE_OTEL_TRACING"] = "true")
        => trCall.ret = TRUE

\* C20: auto_configure_tracing follows its priority order: FORCE_DISABLE_OTEL
\* "true" gives the aggressive disable; otherwise OTEL_SDK_DISABLED "true" the
\* selective one; otherwise a development environment the aggressive one;
\* otherwise the selective one, which leaves the aggressive-only variables
\* as they were.
C20_PriorityOrder ==
    trCall.op = "auto_configure_tracing"
        => LET before == trCall.before
               development == \/ before["PYTHON_ENV"] = "development"
                              \/ before["GOOGLE_CLOUD_PROJECT"] = Unset
           IN  IF before["FORCE_DISABLE_OTEL"] = "true"
               THEN osEnviron = disable_tracing_aggressively(before)
               ELSE IF before["OTEL_SDK_DISABLED"] = "true" \/ ~development
               THEN /\ osEnviron = disable_tracing_selective(before)
                    /\ \A k \in AggressiveOnlyVars : osEnviron[k] = before[k]
               ELSE osEnviron = disable_tracing_aggressively(before)

(***************************************************************************)
(* PART 11.  Logging configuration (app/logging_config.py)                 *)
(***************************************************************************)

\* The levels of the logging module, by name; NOTSET is the only falsy one.
LogLevels == {"NOTSET", "DEBUG", "INFO", "WARNING", "ERROR"}

\* log_level = None: no level given
NoLevel == "None"

\* LoggingConfig.DEFAULT_LEVELS: logger name -> level ("" is the root logger)
DEFAULT_LEVELS ==
    ("opentelemetry" :> "WARNING") @@ ("opentelemetry.context" :> "ERROR") @@
    ("opentelemetry.trace" :> "WARNING") @@ ("opentelemetry.sdk" :> "WARNING") @@
    ("opentelemetry.exporter" :> "WARNING") @@ ("opentelemetry.instrumentation" :> "WARNING") @@
    ("google.cloud" :> "WARNING") @@ ("google.auth" :> "WARNING") @@ ("vertexai" :> "WARNING") @@
    ("google.adk" :> "INFO") @@ ("app" :> "INFO") @@
    ("fastapi" :> "WARNING") @@ ("starlette" :> "WARNING") @@ ("uvicorn" :> "WARNING") @@
    ("" :> "INFO")

\* LoggingConfig.ENV_LEVELS: environment variable -> logger name
ENV_LEVELS ==
    ("LOG_LEVEL" :> "") @@ ("OTEL_LOG_LEVEL" :> "opentelemetry") @@
    ("ADK_LOG_LEVEL" :> "google.adk") @@ ("FASTAPI_LOG_LEVEL" :> "fastapi") @@
    ("UVICORN_LOG_LEVEL" :> "uvicorn")

\* the loggers followed: those of DEFAULT_LEVELS and of silence_ot_warnings
LoggerNames ==
    DOMAIN DEFAULT_LEVELS \cup {"opentelemetry.sdk.trace", "opentelemetry.sdk.trace.export"}

\* the environment variables the module reads
LogEnvVars == DOMAIN ENV_LEVELS \cup {"PYTHON_ENV", "GOOGLE_CLOUD_PROJECT", "CI"}

\* str.upper() on the values followed here
Upper(s) ==
    CASE s = "debug" -> "DEBUG"
      [] s = "bogus" -> "BOGUS"
      [] OTHER -> s

\* os.environ.get(name, "").upper()
EnvUpper(env, name) == IF env[name] = Unset THEN "" ELSE Upper(env[name])

\* _is_development_mode (the working directory has no "dev" in its name)
is_development_mode(env) ==
    \/ env["PYTHON_ENV"] = "development"
    \/ env["GOOGLE_CLOUD_PROJECT"] = Unset

\* _is_testing_mode (sys.argv[0] has no "test" in its name)
is_testing_mode(env) == env["CI"] = "true"

\* _get_default_root_level
get_default_root_level(env) ==
    LET env_level == EnvUpper(env, "LOG_LEVEL")
    IN  IF env_level # ""
        THEN IF env_level \in LogLevels THEN env_level ELSE "INFO"
        ELSE IF is_development_mode(env) \/ is_testing_mode(env) THEN "DEBUG" ELSE "INFO"

\* logging.basicConfig(level = log_level or default) when the root logger has
\* no handler: it installs a handler and sets the root logger's level.
BasicConfig(levels, handlers, env, log_level) ==
    IF handlers THEN levels
    ELSE [levels EXCEPT ![""] = IF log_level \in {NoLevel, "NOTSET"}
                                 THEN get_default_root_level(env)
                                 ELSE log_level]

\* "Apply default levels": setLevel for every entry of DEFAULT_LEVELS
ApplyDefaults(levels) ==
    [n \in LoggerNames |-> IF n \in DOMAIN DEFAULT_LEVELS THEN DEFAULT_LEVELS[n] ELSE levels[n]]

\* _apply_env_overrides: a value that names no level is reported and skipped
apply_env_overrides(levels, env) ==
    [n \in LoggerNames |->
        IF \E v \in DOMAIN ENV_LEVELS : ENV_LEVELS[v] = n /\ EnvUpper(env, v) \in LogLevels
        THEN EnvUpper(env, CHOOSE v \in DOMAIN ENV_LEVELS : ENV_LEVELS[v] = n)
        ELSE levels[n]]

\* "Apply custom levels"
ApplyCustom(levels, custom) ==
    [n \in LoggerNames |-> IF n \in DOMAIN custom THEN custom[n] ELSE levels[n]]

\* configure_logging, as the code orders its steps
configure_logging(levels, handlers, env, custom, log_level) ==
    ApplyCustom(apply_env_overrides(ApplyDefaults(BasicConfig(levels, handlers, env, log_level)),
                                    env),
                custom)

\* a fresh interpreter: the root logger is at WARNING, every other at NOTSET
FreshLevels == [n \in LoggerNames |-> IF n = "" THEN "WARNING" ELSE "NOTSET"]

LogIdle ==
    /\ loggerLevel = FreshLevels
    /\ rootHandlers = FALSE
    /\ logEnviron = [v \in LogEnvVars |-> Unset]
    /\ customLevels = << >>
    /\ logConfigured = FALSE
    /\ logCall = [op |-> "none"]

\* the process starts with some environment; logging_config = LoggingConfig()
LogInit ==
    /\ loggerLevel = FreshLevels
    /\ rootHandlers \in BOOLEAN
    /\ \E ll \in {Unset, "debug", "ERROR", "bogus"}, ol \in {Unset, "DEBUG"},
          gp \in {Unset, "my-project"}, ci \in {Unset, "true"} :
          logEnviron = [v \in LogEnvVars |->
                           CASE v = "LOG_LEVEL" -> ll
                             [] v = "OTEL_LOG_LEVEL" -> ol
                             [] v = "GOOGLE_CLOUD_PROJECT" -> gp
                             [] v = "CI" -> ci
                             [] OTHER -> Unset]
    /\ customLevels = << >>
    /\ logConfigured = FALSE
    /\ logCall = [op |-> "none"]

\* set_level(logger_name, level)
SetLevel ==
    \E name \in {"", "app"}, level \in {"DEBUG", "ERROR"} :
        /\ customLevels' = With(customLevels, name, level)
        /\ loggerLevel' = IF logConfigured THEN [loggerLevel EXCEPT ![name] = level]
                          ELSE loggerLevel
        /\ logCall' = [op |-> "set_level"]
        /\ UNCHANGED <<rootHandlers, logEnviron, logConfigured>>

\* setup_logging(log_level) = logging_config.configure_logging(log_level)
SetupLogging ==
    \E log_level \in LogLevels \cup {NoLevel} :
        /\ loggerLevel' = configure_logging(loggerLevel, rootHandlers, logEnviron,
                                            customLevels, log_level)
        /\ rootHandlers' = TRUE
        /\ logConfigured' = TRUE
        /\ logCall' = [op |-> "setup_logging", log_level |-> log_level,
                       custom |-> DOMAIN customLevels]
        /\ UNCHANGED <<logEnviron, customLevels>>

\* silence_ot_warnings
SilenceOtWarnings ==
    /\ loggerLevel' = [n \in LoggerNames |->
                          IF n \in {"opentelemetry", "opentelemetry.context", "opentelemetry.trace",
                                    "opentelemetry.sdk.trace", "opentelemetry.sdk.trace.export"}
                          THEN "ERROR" ELSE loggerLevel[n]]
    /\ logCall' = [op |-> "silence_ot_warnings"]
    /\ UNCHANGED <<rootHandlers, logEnviron, customLevels, logConfigured>>

\* enable_ot_debug
EnableOtDebug ==
    /\ loggerLevel' = [n \in LoggerNames |->
                          IF n \in {"opentelemetry", "opentelemetry.context", "opentelemetry.trace",
                                    "opentelemetry.sdk"}
                          THEN "DEBUG" ELSE loggerLevel[n]]
    /\ logCall' = [op |-> "enable_ot_debug"]
    /\ UNCHANGED <<rootHandlers, logEnviron, customLevels, logConfigured>>

logRest == <<toolVars, storageVars, pmVars, cfgVars, instrVars, pipeVars, genVars, apiVars, legVars, trVars, queryVars>>

LogNext ==
    \/ SetLevel /\ UNCHANGED logRest
    \/ SetupLogging /\ UNCHANGED logRest
    \/ SilenceOtWarnings /\ UNCHANGED logRest
    \/ EnableOtDebug /\ UNCHANGED logRest

\* C21: after setup_logging(log_level = L), with no LOG_LEVEL in the
\* environment and no custom level for the root logger, the root logger's
\* level is L, for every level L.
C21_GivenLevelIsRootLevel ==
    (/\ logCall.op = "setup_logging"
     /\ logCall.log_level # NoLevel
     /\ logEnviron["LOG_LEVEL"] = Unset
     /\ "" \notin logCall.custom)
        => loggerLevel[""] = logCall.log_level

(***************************************************************************)
(* PART 12.  The user query (app/agent.py: get_user_query, set_session)    *)
(***************************************************************************)

MaxParts == 3

\* A part of a Content: one that carries text, one whose text attribute is
\* None (a function call, a file: google.genai's Part declares text as
\* Optional[str] = None), and an object without a text attribute.
TextPart(t) == [attr |-> "str", text |-> t]
NoneTextPart == [attr |-> "None"]
NoAttrPart == [attr |-> "missing"]

PartValues == {TextPart(<<"a">>), TextPart(<<"b", "c">>), NoneTextPart, NoAttrPart}

PartLists == UNION {[1..n -> PartValues] : n \in 0..MaxParts}

\* callback_context.user_content: None, a Content with a list of parts, a
\* Content whose parts is None, an object with text and without parts
UserContents ==
    {[kind |-> "None"], [kind |-> "parts_None"], [kind |-> "text", text |-> <<"a">>]}
        \cup {[kind |-> "parts", parts |-> ps] : ps \in PartLists}

\* the loop over the parts: user_query += part.text for every part that has
\* the attribute; str += None raises TypeError
RECURSIVE PartsLoop(_, _)
PartsLoop(parts, user_query) ==
    IF parts = << >> THEN [raised |-> "none", user_query |-> user_query]
    ELSE LET part == Head(parts)
         IN  IF part.attr = "missing" THEN PartsLoop(Tail(parts), user_query)
             ELSE IF part.attr = "None" THEN [raised |-> "TypeError", user_query |-> user_query]
             ELSE PartsLoop(Tail(parts), user_query \o part.text)

\* get_user_query: what it returns (every exception of the try is caught)
get_user_query(user_content) ==
    IF user_content.kind = "None" THEN << >>
    ELSE IF user_content.kind = "parts"
         THEN LET r == PartsLoop(user_content.parts, << >>)
              IN  IF r.raised # "none" THEN << >> ELSE r.user_query
    ELSE IF user_content.kind = "parts_None" THEN << >>      \* iterating None raises
    ELSE user_content.text

\* the text of the parts that carry text, in order
RECURSIVE TextOfParts(_)
TextOfParts(parts) ==
    IF parts = << >> THEN << >>
    ELSE (IF Head(parts).attr = "str" THEN Head(parts).text ELSE << >>)
             \o TextOfParts(Tail(parts))

QueryIdle ==
    /\ userContent = [kind |-> "None"]
    /\ qState = << >>
    /\ qCall = [op |-> "none"]

\* a request arrives with some content; the session state is empty
QueryInit ==
    /\ userContent \in UserContents
    /\ qState = << >>
    /\ qCall = [op |-> "none"]

GetUserQuery ==
    /\ qCall' = [op |-> "get_user_query", raised |-> "none", ret |-> get_user_query(userContent)]
    /\ UNCHANGED <<userContent, qState>>

\* set_session: the keys it writes; the values followed here are user_id
\* (None) and user_query
SetSessionQuery ==
    /\ qState' = [k \in SetSessionKeys |->
                     IF k = "user_query" THEN get_user_query(userContent)
                     ELSE IF k = "user_id" THEN None
                     ELSE <<"set">>]
    /\ qCall' = [op |-> "set_session", raised |-> "none", ret |-> None]
    /\ UNCHANGED userContent

\* the next request
NextRequest ==
    /\ qCall.op # "none"
    /\ userContent' \in UserContents
    /\ qState' = << >>
    /\ qCall' = [op |-> "none"]

queryRest == <<toolVars, storageVars, pmVars, cfgVars, instrVars, pipeVars, genVars, apiVars, legVars, trVars, logVars>>

QueryNext ==
    \/ GetUserQuery /\ UNCHANGED queryRest
    \/ SetSessionQuery /\ UNCHANGED queryRest
    \/ NextRequest /\ UNCHANGED queryRest

\* C22: get_user_query never raises and, for a content that has parts,
\* returns the texts of the parts that carry text, concatenated in order;
\* parts without text contribute nothing.  set_session stores that value
\* under state["user_query"].
C22_QueryIsTextOfParts ==
    /\ qCall.op \in {"get_user_query", "set_session"} => qCall.raised = "none"
    /\ (qCall.op = "get_user_query" /\ userContent.kind = "parts")
          => qCall.ret = TextOfParts(userContent.parts)
    /\ (qCall.op = "set_session" /\ userContent.kind = "parts")
          => qState["user_query"] = TextOfParts(userContent.parts)

(***************************************************************************)
(* Specifications                                                          *)
(***************************************************************************)

InitTools == ToolsIdle /\ StorageIdle /\ PmIdle /\ CfgIdle /\ InstrIdle /\ PipeIdle /\ GenIdle /\ ApiIdle /\ LegacyIdle /\ TrIdle /\ LogIdle /\ QueryIdle
SpecTools == InitTools /\ [][ToolsNext]_vars

InitStorage == StorageIdle /\ ToolsIdle /\ PmIdle /\ CfgIdle /\ InstrIdle /\ PipeIdle /\ GenIdle /\ ApiIdle /\ LegacyIdle /\ TrIdle /\ LogIdle /\ QueryIdle
SpecStorage == InitStorage /\ [][StorageNext]_vars

InitPM == PmInit /\ ToolsIdle /\ StorageIdle /\ CfgIdle /\ InstrIdle /\ PipeIdle /\ GenIdle /\ ApiIdle /\ LegacyIdle /\ TrIdle /\ LogIdle /\ QueryIdle
SpecPM == InitPM /\ [][PmNext]_vars

InitConfig == CfgInit /\ ToolsIdle /\ StorageIdle /\ PmIdle /\ InstrIdle /\ PipeIdle /\ GenIdle /\ ApiIdle /\ LegacyIdle /\ TrIdle /\ LogIdle /\ QueryIdle
SpecConfig == InitConfig /\ [][CfgNext]_vars

InitInstr == InstrInit /\ ToolsIdle /\ StorageIdle /\ PmIdle /\ CfgIdle /\ PipeIdle /\ GenIdle /\ ApiIdle /\ LegacyIdle /\ TrIdle /\ LogIdle /\ QueryIdle
SpecInstr == InitInstr /\ [][InstrNext]_vars

InitPipeline == PipeIdle /\ ToolsIdle /\ StorageIdle /\ PmIdle /\ CfgIdle /\ InstrIdle /\ GenIdle /\ ApiIdle /\ LegacyIdle /\ TrIdle /\ LogIdle /\ QueryIdle
SpecPipeline == InitPipeline /\ [][PipeNext]_vars

InitGen == GenInit /\ ToolsIdle /\ StorageIdle /\ PmIdle /\ CfgIdle /\ InstrIdle /\ PipeIdle /\ ApiIdle /\ LegacyIdle /\ TrIdle /\ LogIdle /\ QueryIdle
SpecGen == InitGen /\ [][GenNext]_vars

InitApi == ApiIdle /\ StorageIdle /\ ToolsIdle /\ PmIdle /\ CfgIdle /\ InstrIdle /\ PipeIdle /\ GenIdle /\ LegacyIdle /\ TrIdle /\ LogIdle /\ QueryIdle
SpecApi == InitApi /\ [][ApiNext]_vars

InitLegacy == LegacyIdle /\ ToolsIdle /\ StorageIdle /\ PmIdle /\ CfgIdle /\ InstrIdle /\ PipeIdle /\ GenIdle /\ ApiIdle /\ TrIdle /\ LogIdle /\ QueryIdle
SpecLegacy == InitLegacy /\ [][LegacyNext]_vars

InitTracing == TrInit /\ ToolsIdle /\ StorageIdle /\ PmIdle /\ CfgIdle /\ InstrIdle /\ PipeIdle /\ GenIdle /\ ApiIdle /\ LegacyIdle /\ LogIdle /\ QueryIdle
SpecTracing == InitTracing /\ [][TrNext]_vars

InitLogging == LogInit /\ ToolsIdle /\ StorageIdle /\ PmIdle /\ CfgIdle /\ InstrIdle /\ PipeIdle /\ GenIdle /\ ApiIdle /\ LegacyIdle /\ TrIdle /\ QueryIdle
SpecLogging == InitLogging /\ [][LogNext]_vars

InitQuery == QueryInit /\ ToolsIdle /\ StorageIdle /\ PmIdle /\ CfgIdle /\ InstrIdle /\ PipeIdle /\ GenIdle /\ ApiIdle /\ LegacyIdle /\ TrIdle /\ LogIdle
SpecQuery == InitQuery /\ [][QueryNext]_vars

====
